---- MODULE Spec2Model ----
(***************************************************************************)
(* A model of wumpy's extension machinery (Extension, ExtensionLoader),    *)
(* of the in-memory user and member caches, of the message-component       *)
(* wait/callback system, of the ASGI endpoint for interactions, of the     *)
(* response operations of an Interaction, of SubcommandGroup routing and   *)
(* registration, of the construction and invocation of a Command, of the  *)
(* context-menu commands and of ComponentEmoji.from_string.               *)
(*                                                                         *)
(* Python objects that are mutated in place and can be reached through     *)
(* more than one reference (the callback lists of the listener mappings)   *)
(* live in a heap, `lists`, and the mappings hold references to them.      *)
(***************************************************************************)
EXTENDS Integers, Sequences, FiniteSets, TLC

VARIABLES
    lists,          \* heap of list objects: reference -> sequence of callbacks
    extListeners,   \* Extension._listeners: name -> initializer -> reference
    extCommands,    \* Extension._commands: insertion-ordered sequence of commands
    extComponents,  \* Extension._regex_components
    extData,        \* Extension._data
    tgtListeners,   \* per target: target._listeners
    tgtCommands,    \* per target: target._commands
    tgtComponents,  \* per target: target._regex_components
    last,           \* the last operation and its outcome
    snap,           \* the target as it was before the last load
    lu,             \* the most recent of load / unload, with the data given
    used,           \* how many operations of each kind have run
    lim,            \* how many operations of each kind may run (bounds)
    extensions,     \* ExtensionLoader.extensions: resolved path -> unloader
    sysModules,     \* the resolved paths that have an entry in sys.modules
    res,            \* the last loader operation and its outcome
    subA, subB,     \* the arguments of _is_submodule
    subOut,         \* its result, once it was called
    cacheUsers,     \* UserMemoryCache._users: int id -> User object
    userObjs,       \* the User objects alive: object -> its fields
    held,           \* the User objects the callers still refer to
    created,        \* how many User objects were ever constructed
    uret,           \* the last cache operation and what it returned
    members,        \* MemberMemoryCache._members: (guild id, user id) -> Member
    memberObjs,     \* the Member objects constructed: object -> its fields
    added,          \* per (guild, user) pair of numbers: the Member last added
    mret,           \* the last member-cache operation and what it returned
    compCallback,   \* Component._callback, 0 standing for None
    waiters,        \* Component._waiters: the waits in the list, in order
    waits,          \* the calls of Component.__call__: wait -> its state
    cret,           \* the last operation on the component and its outcome
    asgiCfg,        \* InteractionASGIApp: method and path
    areq,           \* the request the endpoint was last called with
    aout,           \* what the endpoint did with it
    life,           \* the lifespan channel and the call that serves it
    isent,          \* the messages sent on an Interaction's send channel
    iret,           \* the last response operation and its arguments
    gret,           \* the last invocation of the SubcommandGroup
    groupCommands,  \* SubcommandGroup.commands: name -> command object
    rret,           \* the last add_command / remove_command and its outcome
    kret,           \* the last invocation of a Command and the call it made
    pret,           \* the last construction of a Command and its outcome
    xret,           \* the last context-menu interaction and its outcome
    eret            \* the last ComponentEmoji.from_string and its result

extVars == <<lists, extListeners, extCommands, extComponents, extData,
             tgtListeners, tgtCommands, tgtComponents, last, snap, lu, used, lim>>

loaderVars == <<extensions, sysModules, res>>

subVars == <<subA, subB, subOut>>

userVars == <<cacheUsers, userObjs, held, created, uret>>

memberVars == <<members, memberObjs, added, mret>>

\* The variables of the parts that follow the user cache.
compVars == <<compCallback, waiters, waits, cret>>

asgiVars == <<asgiCfg, areq, aout, life>>

respVars == <<isent, iret>>

groupVars == <<gret>>

regVars == <<groupCommands, rret>>

cmdVars == <<kret, pret>>

menuVars == <<xret>>

emojiVars == <<eret>>

lastVars == <<regVars, cmdVars, menuVars, emojiVars>>

laterVars == <<memberVars, compVars, asgiVars, respVars, groupVars, lastVars>>

vars == <<extVars, loaderVars, subVars, userVars, laterVars>>

\* What the operations of one part of the program leave alone.
notExt == <<loaderVars, subVars, userVars, laterVars>>
notLoader == <<subVars, userVars, laterVars>>
notSub == <<extVars, loaderVars, userVars, laterVars>>
notUser == <<extVars, loaderVars, subVars, laterVars>>
notMember == <<extVars, loaderVars, subVars, compVars, asgiVars, respVars,
               groupVars,
               lastVars>>
notComp == <<extVars, loaderVars, subVars, userVars, memberVars, asgiVars,
             respVars, groupVars,
             lastVars>>
notAsgi == <<extVars, loaderVars, subVars, userVars, memberVars, compVars,
             respVars, groupVars,
             lastVars>>
notResp == <<extVars, loaderVars, subVars, userVars, memberVars, compVars,
             asgiVars, groupVars,
             lastVars>>
notGroup == <<extVars, loaderVars, subVars, userVars, memberVars, compVars,
              asgiVars, respVars,
              lastVars>>

earlierVars == <<extVars, loaderVars, subVars, userVars, memberVars, compVars,
                 asgiVars, respVars, groupVars>>
notReg == <<earlierVars, cmdVars, menuVars, emojiVars>>
notCmd == <<earlierVars, regVars, menuVars, emojiVars>>
notMenu == <<earlierVars, regVars, cmdVars, emojiVars>>
notEmoji == <<earlierVars, regVars, cmdVars, menuVars>>

----------------------------------------------------------------------------
(* Bounds of the model. *)

\* One extension and one target.
MaxExtItems == 2   \* registrations made on the extension
MaxTgtItems == 1   \* registrations made directly on the target
MaxLoads    == 2   \* calls of Extension.load
MaxUnloads  == 1   \* calls of Extension.unload
MaxOob      == 1   \* out-of-band removals from the target

\* One extension and two targets.
MaxExtItems2 == 2
MaxTgtItems2 == 1
MaxLoads2    == 2

Targets    == {"app", "bot"}
Names      == {"ready", "message"}          \* event names
Inits      == {"a", "b"}                    \* initializers
Callbacks  == {"f", "g"}
CmdNames   == {"ping", "echo"}
Components == {"c1"}                        \* (pattern, callback) tuples
DataValues == {{}, {"k"}}                   \* the dict given to load: its keys

Owners == {"ext"} \cup Targets
Refs   == Owners \X Names \X Inits

EmptyMap == [x \in {} |-> x]

\* The order in which the model walks a mapping's keys.
PairOrder == << <<"ready", "a">>, <<"ready", "b">>,
                <<"message", "a">>, <<"message", "b">> >>

\* A user payload: the id as received (a string on the wire, an int when
\* built by hand) and the compared fields.
Payload(k, n, nm, d, pf) ==
    [id |-> [kind |-> k, n |-> n], username |-> nm, discriminator |-> d,
     public_flags |-> pf]

NoPayload == Payload("int", 0, "", "", << >>)

None == [isNone |-> TRUE, val |-> {}]
Some(d) == [isNone |-> FALSE, val |-> d]

----------------------------------------------------------------------------
(* Helpers: Python's list and dict operations. *)

\* list.count(x)
Count(s, x) == Cardinality({k \in 1..Len(s) : s[k] = x})

\* x in list
Has(s, x) == \E k \in 1..Len(s) : s[k] = x

\* list.remove(x) when x is present: drops the first occurrence.
RemoveFirst(s, x) ==
    LET k == CHOOSE j \in 1..Len(s) : s[j] = x /\ \A m \in 1..(j-1) : s[m] # x
    IN  SubSeq(s, 1, k-1) \o SubSeq(s, k+1, Len(s))

\* del d[k]
DelKey(d, k) == [x \in DOMAIN d \ {k} |-> d[x]]

\* d[k] = v
SetKey(d, k, v) == [x \in DOMAIN d \cup {k} |-> IF x = k THEN v ELSE d[x]]

\* The (name, initializer) pairs of a listener mapping, in walking order.
PairsOf(l) ==
    SelectSeq(PairOrder, LAMBDA p : p[1] \in DOMAIN l /\ p[2] \in DOMAIN l[p[1]])

\* A command: its name, the module of its callback, and whether it is a
\* SubcommandGroup.
Command(nm, m, g) == [name |-> nm, mod |-> m, group |-> g]

\* A command mapping is an insertion-ordered sequence of commands, keyed by name.
CmdKeys(cs) == {cs[k].name : k \in 1..Len(cs)}

CmdGet(cs, n) == cs[CHOOSE k \in 1..Len(cs) : cs[k].name = n]

CmdDel(cs, n) == SelectSeq(cs, LAMBDA c : c.name # n)

\* dict[k] = v: an existing key keeps its place, a new one goes last.
CmdSet(cs, c) ==
    IF c.name \in CmdKeys(cs)
    THEN [k \in 1..Len(cs) |-> IF cs[k].name = c.name THEN c ELSE cs[k]]
    ELSE Append(cs, c)

----------------------------------------------------------------------------
(* Extension.load and Extension.unload, as functions of a "world" record:  *)
(*   lists  the heap of callback lists                                     *)
(*   tl     the target's _listeners                                        *)
(*   tc     the target's _commands                                         *)
(*   tr     the target's _regex_components                                 *)
(*   fails  how many removal attempts failed (the length of the            *)
(*          to_raise / __cause__ chain)                                    *)

World(t) == [lists |-> lists, tl |-> tgtListeners[t], tc |-> tgtCommands[t],
             tr |-> tgtComponents[t], fails |-> 0]

\* container[initializer] = callbacks.copy(): a new list object, owned by the
\* target, holding the callbacks of the extension's list `src`.
NewBucketShared(w, t, p, src) ==
    [w EXCEPT !.tl = SetKey(@, p[1], SetKey(@[p[1]], p[2], src))]

NewBucket(w, t, p, src) ==
    LET r == <<t, p[1], p[2]>>
    IN  [w EXCEPT !.lists = [@ EXCEPT ![r] = w.lists[src]],
                  !.tl = SetKey(@, p[1], SetKey(@[p[1]], p[2], r))]

\* One (name, initializer) of the extension's listeners, merged into the target.
LoadPair(w, t, p, el) ==
    LET src == el[p[1]][p[2]]
        w1  == IF p[1] \in DOMAIN w.tl THEN w
               ELSE [w EXCEPT !.tl = SetKey(@, p[1], EmptyMap)]
    IN  IF p[2] \in DOMAIN w1.tl[p[1]]
        THEN LET reg == w1.tl[p[1]][p[2]]
             IN  [w1 EXCEPT !.lists = [@ EXCEPT ![reg] = @ \o w1.lists[src]]]
        ELSE NewBucket(w1, t, p, src)

RECURSIVE LoadListeners(_, _, _, _, _)
LoadListeners(w, t, el, ps, k) ==
    IF k > Len(ps) THEN w
    ELSE LoadListeners(LoadPair(w, t, ps[k], el), t, el, ps, k + 1)

\* target._commands.update(self._commands)
RECURSIVE UpdateCommands(_, _, _)
UpdateCommands(tc, ec, k) ==
    IF k > Len(ec) THEN tc ELSE UpdateCommands(CmdSet(tc, ec[k]), ec, k + 1)

\* The registrar classes each target is an instance of.
Caps(t) == IF t = "app" THEN {"EventDispatcher", "CommandRegistrar", "ComponentHandler"}
           ELSE {"EventDispatcher", "CommandRegistrar"}

\* Extension.load, up to the assignment of _data.
ExtLoad(w, t, el, ec, er) ==
    LET w1 == IF "EventDispatcher" \in Caps(t)
              THEN LoadListeners(w, t, el, PairsOf(el), 1) ELSE w
        w2 == IF "CommandRegistrar" \in Caps(t)
              THEN [w1 EXCEPT !.tc = UpdateCommands(@, ec, 1)] ELSE w1
    IN  IF "ComponentHandler" \in Caps(t) THEN [w2 EXCEPT !.tr = @ \o er] ELSE w2

\* except Exception as err: err.__cause__ = to_raise; to_raise = err
Fail(w) == [w EXCEPT !.fails = @ + 1]

\* for callback in callbacks: registered.remove(callback), each in its own
\* try.  `src` is read from the heap at every step, as Python's list iterator does.
RECURSIVE UnloadCallbacksBreak(_, _, _, _)
UnloadCallbacksBreak(w, reg, src, k) ==
    IF k > Len(w.lists[src]) THEN w
    ELSE LET c == w.lists[src][k]
         IN  IF Has(w.lists[reg], c)
             THEN UnloadCallbacksBreak(
                      [w EXCEPT !.lists = [@ EXCEPT ![reg] = RemoveFirst(@, c)]],
                      reg, src, k + 1)
             ELSE Fail(w)

RECURSIVE UnloadCallbacks(_, _, _, _)
UnloadCallbacks(w, reg, src, k) ==
    IF k > Len(w.lists[src]) THEN w
    ELSE LET c == w.lists[src][k]
         IN  UnloadCallbacks(
                 IF Has(w.lists[reg], c)
                 THEN [w EXCEPT !.lists = [@ EXCEPT ![reg] = RemoveFirst(@, c)]]
                 ELSE Fail(w),
                 reg, src, k + 1)

\* One initializer of one event name of the extension.
UnloadInit(w, n, i, el) ==
    IF i \notin DOMAIN w.tl[n] THEN Fail(w)
    ELSE LET reg == w.tl[n][i]
             w1  == UnloadCallbacks(w, reg, el[n][i], 1)
         IN  IF w1.lists[reg] = <<>>
             THEN [w1 EXCEPT !.tl = SetKey(@, n, DelKey(@[n], i))]
             ELSE w1

InitOrder == <<"a", "b">>
NameOrder == <<"ready", "message">>

RECURSIVE UnloadInits(_, _, _, _)
UnloadInits(w, n, el, k) ==
    IF k > Len(InitOrder) THEN w
    ELSE UnloadInits(IF InitOrder[k] \in DOMAIN el[n]
                     THEN UnloadInit(w, n, InitOrder[k], el) ELSE w,
                     n, el, k + 1)

\* One event name of the extension.
UnloadNameKeepEmpty(w, n, el) ==
    IF n \notin DOMAIN w.tl THEN Fail(w) ELSE UnloadInits(w, n, el, 1)

UnloadName(w, n, el) ==
    IF n \notin DOMAIN w.tl THEN Fail(w)
    ELSE LET w1 == UnloadInits(w, n, el, 1)
         IN  IF DOMAIN w1.tl[n] = {}
             THEN [w1 EXCEPT !.tl = DelKey(@, n)]
             ELSE w1

RECURSIVE UnloadListeners(_, _, _)
UnloadListeners(w, el, k) ==
    IF k > Len(NameOrder) THEN w
    ELSE UnloadListeners(IF NameOrder[k] \in DOMAIN el
                         THEN UnloadName(w, NameOrder[k], el) ELSE w,
                         el, k + 1)

\* for command in self._commands: del target._commands[command]; a KeyError
\* is passed over and not remembered.
UnloadCommandsForgotten(w, ec, k) == w

RECURSIVE UnloadCommands(_, _, _)
UnloadCommands(w, ec, k) ==
    IF k > Len(ec) THEN w
    ELSE UnloadCommands([w EXCEPT !.tc = CmdDel(@, ec[k].name)], ec, k + 1)

\* for element in self._regex_components: target._regex_components.remove(element)
RECURSIVE UnloadComponents(_, _, _)
UnloadComponents(w, er, k) ==
    IF k > Len(er) THEN w
    ELSE UnloadComponents(IF Has(w.tr, er[k])
                          THEN [w EXCEPT !.tr = RemoveFirst(@, er[k])]
                          ELSE Fail(w),
                          er, k + 1)

\* Extension.unload, up to the clearing of _data; the caller raises when
\* fails > 0.
ExtUnload(w, t, el, ec, er) ==
    LET w1 == IF "EventDispatcher" \in Caps(t) THEN UnloadListeners(w, el, 1) ELSE w
        w2 == IF "CommandRegistrar" \in Caps(t) THEN UnloadCommands(w1, ec, 1) ELSE w1
    IN  IF "ComponentHandler" \in Caps(t) THEN UnloadComponents(w2, er, 1) ELSE w2

\* Extension.data
DataIfTruthy(d) == IF d.isNone \/ d.val = {} THEN [raised |-> TRUE, val |-> {}]
                   ELSE [raised |-> FALSE, val |-> d.val]

Data(d) == IF d.isNone THEN [raised |-> TRUE, val |-> {}]
           ELSE [raised |-> FALSE, val |-> d.val]

\* List objects no mapping refers to any more are garbage: the model empties
\* them, so that two states differ only in what the program can observe.
Collect(ls, tls) ==
    [r \in Refs |->
        IF r[1] \in Targets
           /\ ~(r[2] \in DOMAIN tls[r[1]] /\ r[3] \in DOMAIN tls[r[1]][r[2]]
                /\ tls[r[1]][r[2]][r[3]] = r)
        THEN <<>> ELSE ls[r]]

\* What a target holds, with the references of its listener mapping followed.
ViewOf(ls, tl, tc, tr) ==
    [listeners  |-> [n \in DOMAIN tl |-> [i \in DOMAIN tl[n] |-> ls[tl[n][i]]]],
     commands   |-> tc,
     components |-> tr]

View(t) == ViewOf(lists, tgtListeners[t], tgtCommands[t], tgtComponents[t])

EmptyView == ViewOf(lists, EmptyMap, <<>>, <<>>)

----------------------------------------------------------------------------
(* The extension and its targets: registration, load, unload, and removals *)
(* made behind the extension's back.                                       *)

Other  == [op |-> "other", tgt |-> "-", raised |-> 0, fails |-> 0]
NoRes  == [op |-> "none", path |-> "-", rel |-> "abs", result |-> "ok",
           cause |-> "none", wasLoaded |-> FALSE, executed |-> FALSE,
           called |-> FALSE]
NoSnap == [stage |-> "none", tgt |-> "-", view |-> EmptyView]

\* The extension machinery before any registration.
InitExtVars(l) ==
    /\ lim = l
    /\ lists = [r \in Refs |-> <<>>]
    /\ extListeners = EmptyMap
    /\ extCommands = <<>>
    /\ extComponents = <<>>
    /\ extData = None
    /\ tgtListeners = [t \in Targets |-> EmptyMap]
    /\ tgtCommands = [t \in Targets |-> <<>>]
    /\ tgtComponents = [t \in Targets |-> <<>>]
    /\ last = Other
    /\ snap = NoSnap
    /\ lu = [op |-> "none", data |-> {}]
    /\ used = [ext |-> 0, tgt |-> 0, loads |-> 0, unloads |-> 0, oob |-> 0,
               xloads |-> 0, xunloads |-> 0]
    /\ extensions = EmptyMap
    /\ sysModules = {}
    /\ res = NoRes

\* _is_submodule not called yet.
InitSubVars(a, b) ==
    /\ subA = a
    /\ subB = b
    /\ subOut = [done |-> FALSE, val |-> FALSE]

NoRet == [op |-> "none", data |-> NoPayload, obj |-> 0, prior |-> 0,
          priorHeld |-> FALSE]

\* An empty cache.
InitUserVars ==
    /\ cacheUsers = EmptyMap
    /\ userObjs = EmptyMap
    /\ held = {}
    /\ created = 0
    /\ uret = NoRet

NoMret ==
    [op |-> "none", guild |-> << >>, user |-> NoPayload.id, g |-> 0, u |-> 0,
     result |-> "ok", old |-> 0, new |-> 0, got |-> 0, before |-> 0]

\* An empty member cache.
InitMemberVars ==
    /\ members = EmptyMap
    /\ memberObjs = EmptyMap
    /\ added = EmptyMap
    /\ mret = NoMret

NoCret ==
    [op |-> "none", interaction |-> "-", started |-> 0, blocked |-> {},
     result |-> "ok", given |-> 0, override |-> FALSE, before |-> 0]

\* Component(): no callback, no waiters.
InitCompVars ==
    /\ compCallback = 0
    /\ waiters = << >>
    /\ waits = EmptyMap
    /\ cret = NoCret

\* No scope has been handed to the endpoint yet.
NoRequest ==
    [type |-> "none", path |-> "/", method |-> "POST", ctype |-> "absent",
     sig |-> FALSE, ts |-> FALSE, signed |-> "forged", chunks |-> <<"{}">>,
     more |-> "False"]

\* What one call of the endpoint did: the responses sent, the status
\* _verify_request_target answered with (0 when it returned False), whether
\* the application's verifier was called, the message it was called with,
\* whether it accepted, whether the body was decoded, whether the interaction
\* was handed on, and the exception that left the call.
NoOutcome ==
    [sent |-> << >>, gate |-> 0, authenticated |-> FALSE, message |-> "",
     verified |-> FALSE, decoded |-> FALSE, dispatched |-> FALSE,
     raised |-> "none"]

\* No lifespan scope has been handed to the endpoint yet.
NoLifespan ==
    [call |-> "none", chan |-> << >>, delivered |-> << >>, acks |-> << >>,
     app |-> << >>]

\* InteractionASGIApp(app, method=..., path=...)
InitAsgiVars(cfg) ==
    /\ asgiCfg = cfg
    /\ areq = NoRequest
    /\ aout = NoOutcome
    /\ life = NoLifespan

DefaultCfg == [method |-> "POST", path |-> "/"]

\* The sentinel of wumpy.rest.utils for a parameter that was not given.
MISSING == "MISSING"

\* No response operation has run yet.
NoIret ==
    [op |-> "none", content |-> MISSING, tts |-> MISSING, embeds |-> MISSING,
     allowed_mentions |-> MISSING, ephemeral |-> MISSING,
     components |-> MISSING]

\* An Interaction on whose send channel nothing was sent.
InitRespVars ==
    /\ isent = << >>
    /\ iret = NoIret

\* No invocation of the group yet.
NoGret ==
    [op |-> "none", options |-> << >>, result |-> "ok", invoked |-> << >>]

InitGroupVars == gret = NoGret

NoRret == [op |-> "none", command |-> "-", result |-> "ok", why |-> "-",
           before |-> << >>]

InitRegVars == groupCommands = << >> /\ rret = NoRret

NoKret == [op |-> "none"]

NoPret == [op |-> "none"]

NoXret ==
    [op |-> "none",
     cmd |-> [cls |-> "MessageCommand",
              callback |-> [isNone |-> TRUE, params |-> << >>],
              argument |-> "MISSING"],
     interaction |-> [target_id |-> "None", user |-> FALSE, message |-> FALSE],
     raised |-> "none", value |-> "None", returned |-> FALSE, tasks |-> << >>]

NoEret ==
    [op |-> "none", value |-> << >>,
     emoji |-> [name |-> << >>, animated |-> FALSE, id |-> << >>]]

InitLastVars ==
    /\ InitRegVars
    /\ kret = NoKret
    /\ pret = NoPret
    /\ xret = NoXret
    /\ eret = NoEret

InitLaterVars ==
    /\ InitMemberVars
    /\ InitCompVars
    /\ InitAsgiVars(DefaultCfg)
    /\ InitRespVars
    /\ InitGroupVars
    /\ InitLastVars

InitWith(l) ==
    InitExtVars(l) /\ InitSubVars(<<>>, <<>>) /\ InitUserVars /\ InitLaterVars

\* EventDispatcher.add_listener: the callback goes last in the list under
\* (name, initializer), which is created when missing.
AddListener(l, o, n, i) ==
    SetKey(l, n, SetKey(IF n \in DOMAIN l THEN l[n] ELSE EmptyMap, i,
                        IF n \in DOMAIN l /\ i \in DOMAIN l[n] THEN l[n][i]
                        ELSE <<o, n, i>>))

Bookkeeping(kind) ==
    /\ last' = [Other EXCEPT !.op = IF kind = "ext" THEN "ext_add" ELSE "other"]
    /\ snap' = NoSnap
    /\ used' = [used EXCEPT ![kind] = @ + 1]
    /\ UNCHANGED <<lu, lim, notExt>>

ExtAddListener(n, i, c) ==
    /\ used.ext < lim.ext
    /\ extListeners' = AddListener(extListeners, "ext", n, i)
    /\ lists' = [lists EXCEPT ![extListeners'[n][i]] = Append(@, c)]
    /\ Bookkeeping("ext")
    /\ UNCHANGED <<extCommands, extComponents, extData,
                   tgtListeners, tgtCommands, tgtComponents>>

\* CommandRegistrar.add_command: a duplicate name is refused.
ExtAddCommand(nm) ==
    /\ used.ext < lim.ext
    /\ nm \notin CmdKeys(extCommands)
    /\ extCommands' = Append(extCommands, Command(nm, "ext", FALSE))
    /\ Bookkeeping("ext")
    /\ UNCHANGED <<lists, extListeners, extComponents, extData,
                   tgtListeners, tgtCommands, tgtComponents>>

ExtAddComponent(c) ==
    /\ used.ext < lim.ext
    /\ extComponents' = Append(extComponents, c)
    /\ Bookkeeping("ext")
    /\ UNCHANGED <<lists, extListeners, extCommands, extData,
                   tgtListeners, tgtCommands, tgtComponents>>

TgtAddListener(t, n, i, c) ==
    /\ used.tgt < lim.tgt /\ t \in lim.targets
    /\ tgtListeners' = [tgtListeners EXCEPT ![t] = AddListener(@, t, n, i)]
    /\ lists' = [lists EXCEPT ![tgtListeners'[t][n][i]] = Append(@, c)]
    /\ Bookkeeping("tgt")
    /\ UNCHANGED <<extListeners, extCommands, extComponents, extData,
                   tgtCommands, tgtComponents>>

TgtAddCommand(t, nm) ==
    /\ used.tgt < lim.tgt /\ t \in lim.targets
    /\ nm \notin CmdKeys(tgtCommands[t])
    /\ tgtCommands' = [tgtCommands EXCEPT ![t] = Append(@, Command(nm, t, FALSE))]
    /\ Bookkeeping("tgt")
    /\ UNCHANGED <<lists, extListeners, extCommands, extComponents, extData,
                   tgtListeners, tgtComponents>>

TgtAddComponent(t, c) ==
    /\ used.tgt < lim.tgt /\ t \in lim.targets
    /\ "ComponentHandler" \in Caps(t)
    /\ tgtComponents' = [tgtComponents EXCEPT ![t] = Append(@, c)]
    /\ Bookkeeping("tgt")
    /\ UNCHANGED <<lists, extListeners, extCommands, extComponents, extData,
                   tgtListeners, tgtCommands>>

\* Extension.load(target, data)
Load(t, d) ==
    /\ used.loads < lim.loads /\ t \in lim.targets
    /\ LET w == ExtLoad(World(t), t, extListeners, extCommands, extComponents)
       IN  /\ tgtListeners' = [tgtListeners EXCEPT ![t] = w.tl]
           /\ tgtCommands' = [tgtCommands EXCEPT ![t] = w.tc]
           /\ tgtComponents' = [tgtComponents EXCEPT ![t] = w.tr]
           /\ lists' = Collect(w.lists, tgtListeners')
    /\ extData' = Some(d)
    /\ last' = [op |-> "load", tgt |-> t, raised |-> 0, fails |-> 0]
    /\ snap' = [stage |-> "loaded", tgt |-> t, view |-> View(t)]
    /\ lu' = [op |-> "load", data |-> d]
    /\ used' = [used EXCEPT !.loads = @ + 1]
    /\ UNCHANGED <<extListeners, extCommands, extComponents, lim, notExt>>

\* Extension.unload(target)
Unload(t) ==
    /\ used.unloads < lim.unloads /\ t \in lim.targets
    /\ LET w == ExtUnload(World(t), t, extListeners, extCommands, extComponents)
       IN  /\ tgtListeners' = [tgtListeners EXCEPT ![t] = w.tl]
           /\ tgtCommands' = [tgtCommands EXCEPT ![t] = w.tc]
           /\ tgtComponents' = [tgtComponents EXCEPT ![t] = w.tr]
           /\ lists' = Collect(w.lists, tgtListeners')
           /\ last' = [op |-> "unload", tgt |-> t,
                       raised |-> IF w.fails > 0 THEN 1 ELSE 0, fails |-> w.fails]
    /\ extData' = None
    /\ snap' = IF snap.stage = "loaded" /\ snap.tgt = t
               THEN [snap EXCEPT !.stage = "roundtrip"] ELSE NoSnap
    /\ lu' = [op |-> "unload", data |-> {}]
    /\ used' = [used EXCEPT !.unloads = @ + 1]
    /\ UNCHANGED <<extListeners, extCommands, extComponents, lim, notExt>>

\* Removals from a target that do not go through the extension, made while
\* the extension is loaded: target._listeners[n][i].remove(c), and so on.
OobGuard(t) == used.oob < lim.oob /\ t \in lim.targets /\ ~extData.isNone

OobFrame ==
    /\ Bookkeeping("oob")
    /\ UNCHANGED <<extListeners, extCommands, extComponents, extData>>

OobRemoveListener(t, n, i, c) ==
    /\ OobGuard(t)
    /\ n \in DOMAIN tgtListeners[t] /\ i \in DOMAIN tgtListeners[t][n]
    /\ Has(lists[tgtListeners[t][n][i]], c)
    /\ lists' = [lists EXCEPT ![tgtListeners[t][n][i]] = RemoveFirst(@, c)]
    /\ OobFrame
    /\ UNCHANGED <<tgtListeners, tgtCommands, tgtComponents>>

OobDelBucket(t, n, i) ==
    /\ OobGuard(t)
    /\ n \in DOMAIN tgtListeners[t] /\ i \in DOMAIN tgtListeners[t][n]
    /\ tgtListeners' = [tgtListeners EXCEPT ![t] = SetKey(@, n, DelKey(@[n], i))]
    /\ lists' = Collect(lists, tgtListeners')
    /\ OobFrame
    /\ UNCHANGED <<tgtCommands, tgtComponents>>

OobDelName(t, n) ==
    /\ OobGuard(t)
    /\ n \in DOMAIN tgtListeners[t]
    /\ tgtListeners' = [tgtListeners EXCEPT ![t] = DelKey(@, n)]
    /\ lists' = Collect(lists, tgtListeners')
    /\ OobFrame
    /\ UNCHANGED <<tgtCommands, tgtComponents>>

OobDelCommand(t, nm) ==
    /\ OobGuard(t)
    /\ nm \in CmdKeys(tgtCommands[t])
    /\ tgtCommands' = [tgtCommands EXCEPT ![t] = CmdDel(@, nm)]
    /\ OobFrame
    /\ UNCHANGED <<lists, tgtListeners, tgtComponents>>

OobRemoveComponent(t, c) ==
    /\ OobGuard(t)
    /\ Has(tgtComponents[t], c)
    /\ tgtComponents' = [tgtComponents EXCEPT ![t] = RemoveFirst(@, c)]
    /\ OobFrame
    /\ UNCHANGED <<lists, tgtListeners, tgtCommands>>

NextExt ==
    \/ \E n \in Names, i \in Inits, c \in Callbacks : ExtAddListener(n, i, c)
    \/ \E nm \in CmdNames : ExtAddCommand(nm)
    \/ \E c \in Components : ExtAddComponent(c)
    \/ \E t \in Targets, n \in Names, i \in Inits, c \in Callbacks :
          TgtAddListener(t, n, i, c)
    \/ \E t \in Targets, nm \in CmdNames : TgtAddCommand(t, nm)
    \/ \E t \in Targets, c \in Components : TgtAddComponent(t, c)
    \/ \E t \in Targets, d \in DataValues : Load(t, d)
    \/ \E t \in Targets : Unload(t)
    \/ \E t \in Targets, n \in Names, i \in Inits, c \in Callbacks :
          OobRemoveListener(t, n, i, c)
    \/ \E t \in Targets, n \in Names, i \in Inits : OobDelBucket(t, n, i)
    \/ \E t \in Targets, n \in Names : OobDelName(t, n)
    \/ \E t \in Targets, nm \in CmdNames : OobDelCommand(t, nm)
    \/ \E t \in Targets, c \in Components : OobRemoveComponent(t, c)

InitExt ==
    InitWith([ext |-> MaxExtItems, tgt |-> MaxTgtItems, loads |-> MaxLoads,
              unloads |-> MaxUnloads, oob |-> MaxOob, xloads |-> 0,
              xunloads |-> 0, targets |-> {"app"}])

InitExt2 ==
    InitWith([ext |-> MaxExtItems2, tgt |-> MaxTgtItems2, loads |-> MaxLoads2,
              unloads |-> 0, oob |-> 0, xloads |-> 0, xunloads |-> 0,
              targets |-> Targets])

SpecExt == InitExt /\ [][NextExt]_vars

\* Two targets: registrations and loads only.
NextExt2 ==
    \/ \E n \in Names, i \in Inits, c \in Callbacks : ExtAddListener(n, i, c)
    \/ \E nm \in CmdNames : ExtAddCommand(nm)
    \/ \E c \in Components : ExtAddComponent(c)
    \/ \E t \in Targets, n \in Names, i \in Inits, c \in Callbacks :
          TgtAddListener(t, n, i, c)
    \/ \E t \in Targets, d \in DataValues : Load(t, d)

SpecExt2 == InitExt2 /\ [][NextExt2]_vars

----------------------------------------------------------------------------
(* ExtensionLoader: load_extension, unload_extension and the sweep.  The   *)
(* loader is the target "app"; the Extension of module "ext" is the        *)
(* extension of the variables above.                                       *)

MaxXLoads   == 3   \* calls of load_extension
MaxXUnloads == 2   \* calls of unload_extension
MaxAppItems == 1   \* registrations made directly on the loader

\* The characters of a module name, as str.startswith compares them.
Chars(m) ==
    CASE m = "ext"     -> <<"e">>
      [] m = "ext.sub" -> <<"e", ".", "s">>
      [] m = "extra"   -> <<"e", "x">>
      [] m = "app"     -> <<"a">>
      [] OTHER         -> <<"o">>

\* callback.__module__
CallbackModule(c) ==
    CASE c = "f" -> "ext"
      [] c = "s" -> "ext.sub"
      [] c = "g" -> "extra"
      [] OTHER   -> "app"

\* str.startswith
StartsWith(s, pre) == Len(pre) <= Len(s) /\ SubSeq(s, 1, Len(pre)) = pre

\* _is_submodule(a, b)
IsSubmoduleBarePrefix(a, b) == a = b \/ StartsWith(a, b)

IsSubmodule(a, b) == a = b \/ StartsWith(a, b \o <<".">>)

\* EventDispatcher.remove_listener: the first matching instance goes.
RemoveListener(s, c) == RemoveFirst(s, c)

\* CommandRegistrar.remove_command: the entry is deleted from the mapping.
RemoveCommand(cs, c) == CmdDel(cs, c.name)

RECURSIVE RemoveEach(_, _, _)
RemoveEach(s, cs, k) ==
    IF k > Len(cs) THEN s ELSE RemoveEach(RemoveListener(s, cs[k]), cs, k + 1)

\* for callback in [c for c in callbacks if _is_submodule(c.__module__, module)]:
\*     self.remove_listener(callback, event=event)
SweepList(s, m) ==
    RemoveEach(s, SelectSeq(s, LAMBDA c :
                      IsSubmodule(Chars(CallbackModule(c)), Chars(m))), 1)

Referenced(tl, r) ==
    \E n \in DOMAIN tl : \E i \in DOMAIN tl[n] : tl[n][i] = r

SweepListeners(w, m) ==
    [w EXCEPT !.lists = [r \in Refs |->
                            IF Referenced(w.tl, r) THEN SweepList(@[r], m) ELSE @[r]]]

\* for command in self._commands.values(): ... self.remove_command(command)
\* The first removal changes the size of the dict that is being iterated, and
\* the iterator's next step raises RuntimeError: the loop ends there.
SweepCommands(w, m) ==
    LET hit == {k \in 1..Len(w.tc) :
                   ~w.tc[k].group /\ IsSubmodule(Chars(w.tc[k].mod), Chars(m))}
    IN  IF hit = {} THEN [w |-> w, crashed |-> FALSE]
        ELSE LET k == CHOOSE j \in hit : \A x \in hit : j <= x
             IN  [w |-> [w EXCEPT !.tc = RemoveCommand(@, @[k])], crashed |-> TRUE]

\* ExtensionLoader._remove_module(module)
RemoveModule(w, m) == SweepCommands(SweepListeners(w, m), m)

\* The modules there are.  "ext" defines `ext`, an Extension, and `version`,
\* a string; "extra" defines the functions `setup` and `teardown`, and
\* `version`; the top-level code of "broken" raises; "nofile" does not exist.
Files == {"ext", "extra", "broken"}
Paths == Files \cup {"nofile"}
VarNames == {"ext", "setup", "version"}
Rels == {"abs", "relative", "too_high"}
LoadFaults == {"none", "mid", "end"}
UnloadFaults == {"none", "start"}

ExecRaises(p) == p = "broken"

Attr(p, v) ==
    CASE p = "ext" /\ v = "ext"       -> "extension"
      [] p = "extra" /\ v = "setup"   -> "function"
      [] v = "version"                -> "value"
      [] OTHER                        -> "missing"

\* What the top-level code of "ext" registers on its Extension.
ExtContents ==
    { [ls |-> << <<"ready", "a", "f">> >>,
       cs |-> << Command("ping", "ext", FALSE) >>,
       rs |-> << "c1" >>],
      [ls |-> << <<"ready", "a", "f">>, <<"message", "b", "s">> >>,
       cs |-> << >>,
       rs |-> << >>],
      [ls |-> << >>,
       cs |-> << Command("echo", "ext", TRUE), Command("ping", "ext.sub", FALSE) >>,
       rs |-> << >>] }

ContentListeners(ls) ==
    [n \in {ls[k][1] : k \in 1..Len(ls)} |->
        [i \in {ls[k][2] : k \in {j \in 1..Len(ls) : ls[j][1] = n}} |-> <<"ext", n, i>>]]

ContentList(ls, n, i) ==
    LET own == SelectSeq(ls, LAMBDA x : x[1] = n /\ x[2] = i)
    IN  [k \in 1..Len(own) |-> own[k][3]]

\* The state load_extension and unload_extension work on.
LoaderState ==
    [lists |-> lists, tl |-> tgtListeners["app"], tc |-> tgtCommands["app"],
     tr |-> tgtComponents["app"], fails |-> 0,
     el |-> extListeners, ec |-> extCommands, er |-> extComponents,
     ed |-> extData, exts |-> extensions, mods |-> sysModules]

\* spec.loader.exec_module(ext): the module's top-level code runs.
Exec(s, p, k) ==
    IF p # "ext" THEN s
    ELSE [s EXCEPT !.el = ContentListeners(k.ls),
                   !.ec = k.cs,
                   !.er = k.rs,
                   !.ed = None,
                   !.lists = [r \in Refs |-> IF r[1] = "ext"
                                             THEN ContentList(k.ls, r[2], r[3])
                                             ELSE @[r]]]

\* setup(loader, kwargs), after its add_listener call.
SetupCommand(s1, fault) ==
    IF fault = "mid" \/ "echo" \in CmdKeys(s1.tc)
    THEN [s |-> s1, raised |-> TRUE, unloader |-> "-"]
    ELSE [s |-> [s1 EXCEPT !.tc = Append(@, Command("echo", "extra", FALSE))],
          raised |-> fault = "end", unloader |-> "teardown"]

\* setup(loader, kwargs): add_listener, where l is the mapping after it.
SetupListener(s, l) ==
    [s EXCEPT !.tl = l, !.lists = [@ EXCEPT ![l["ready"]["a"]] = Append(@, "g")]]

\* Extension.__call__
Loaded(w, d) ==
    [s |-> [w EXCEPT !.ed = Some(d)], raised |-> FALSE, unloader |-> "extension"]

\* loader(self, kwargs)
CallLoader(s, p, fault, d) ==
    IF p = "ext" THEN Loaded(ExtLoad(s, "app", s.el, s.ec, s.er), d)
    ELSE SetupCommand(SetupListener(s, AddListener(s.tl, "app", "ready", "a")), fault)

\* The unloader that Extension.load returned: Extension.unload.
Unloaded(w) == [s |-> [w EXCEPT !.ed = None], raised |-> w.fails > 0]

\* teardown(loader), after its remove_listener call.
TeardownCommand(s1) ==
    IF "echo" \notin CmdKeys(s1.tc)
       \/ CmdGet(s1.tc, "echo") # Command("echo", "extra", FALSE)
    THEN [s |-> s1, raised |-> TRUE]
    ELSE [s |-> [s1 EXCEPT !.tc = RemoveCommand(@, CmdGet(@, "echo"))],
          raised |-> FALSE]

\* self.extensions[resolved](self)
CallUnloader(s, u, fault) ==
    IF u = "extension"
    THEN Unloaded(ExtUnload([s EXCEPT !.fails = 0], "app", s.el, s.ec, s.er))
    ELSE IF fault = "start" THEN [s |-> s, raised |-> TRUE]
    ELSE IF ~("ready" \in DOMAIN s.tl /\ "a" \in DOMAIN s.tl["ready"]
              /\ Has(s.lists[s.tl["ready"]["a"]], "g"))
    THEN [s |-> s, raised |-> TRUE]
    ELSE TeardownCommand([s EXCEPT !.lists = [@ EXCEPT ![s.tl["ready"]["a"]] =
                                                 RemoveListener(@, "g")]])

Outcome(s, result, cause, executed, called) ==
    [s |-> s, result |-> result, cause |-> cause, executed |-> executed,
     called |-> called]

\* resolved in self.extensions
AlreadyLoadedUnchecked(p, exts) == FALSE

AlreadyLoaded(p, exts) == p \in DOMAIN exts

\* del sys.modules[resolved]
DelModule(s, p) == [s EXCEPT !.mods = @ \ {p}]

\* load_extension, after self._remove_module(resolved).
LoadSwept(sw) ==
    Outcome(sw.w, IF sw.crashed THEN "RuntimeError" ELSE "ExtensionFailure",
            "loader", TRUE, TRUE)

\* load_extension, after loader(self, kwargs).
LoadCalled(c, p) ==
    IF c.raised THEN LoadSwept(RemoveModule(DelModule(c.s, p), p))
    ELSE Outcome([c.s EXCEPT !.exts = SetKey(@, p, c.unloader)],
                 "ok", "none", TRUE, TRUE)

\* load_extension, after exec_module(ext).
LoadExecuted(s1, p, v, fault, d) ==
    IF Attr(p, v) = "missing"
    THEN Outcome(DelModule(s1, p), "ValueError", "none", TRUE, FALSE)
    ELSE IF Attr(p, v) = "value"
    THEN Outcome(DelModule(s1, p), "ExtensionFailure", "none", TRUE, FALSE)
    ELSE LoadCalled(CallLoader(s1, p, fault, d), p)

\* ExtensionLoader.load_extension(path + ":" + var, package, **kwargs)
LoadExt(s, p, v, rel, k, fault, d) ==
    IF rel = "relative" THEN Outcome(s, "TypeError", "none", FALSE, FALSE)
    ELSE IF rel = "too_high" THEN Outcome(s, "ValueError", "none", FALSE, FALSE)
    ELSE IF AlreadyLoaded(p, s.exts)
    THEN Outcome(s, "ValueError", "none", FALSE, FALSE)
    ELSE IF p \notin Files THEN Outcome(s, "ValueError", "none", FALSE, FALSE)
    ELSE IF ExecRaises(p) THEN Outcome(s, "ExtensionFailure", "exec", TRUE, FALSE)
    ELSE LoadExecuted(Exec([s EXCEPT !.mods = @ \cup {p}], p, k), p, v, fault, d)

\* unload_extension: finally: del sys.modules[resolved]
UnloadFinally(s, p, result, cause) ==
    IF p \in s.mods THEN Outcome(DelModule(s, p), result, cause, FALSE, TRUE)
    ELSE Outcome(s, "KeyError", cause, FALSE, TRUE)

\* unload_extension, after self._remove_module(resolved).
UnloadSwept(sw, p) ==
    UnloadFinally(sw.w, p,
                  IF sw.crashed THEN "RuntimeError" ELSE "ExtensionFailure",
                  "unloader")

\* unload_extension, after the unloader was called.
UnloadCalled(c, p) ==
    IF c.raised THEN UnloadSwept(RemoveModule(c.s, p), p)
    ELSE UnloadFinally(c.s, p, "ok", "none")

\* ExtensionLoader.unload_extension(path, package)
UnloadExt(s, p, rel, fault) ==
    IF rel = "relative" THEN Outcome(s, "TypeError", "none", FALSE, FALSE)
    ELSE IF rel = "too_high" THEN Outcome(s, "ValueError", "none", FALSE, FALSE)
    ELSE IF p \notin DOMAIN s.exts THEN Outcome(s, "ValueError", "none", FALSE, FALSE)
    ELSE UnloadCalled(CallUnloader(s, s.exts[p], fault), p)

\* The state after a loader operation with outcome o.
Becomes(op, p, rel, o) ==
    /\ tgtListeners' = [tgtListeners EXCEPT !["app"] = o.s.tl]
    /\ tgtCommands' = [tgtCommands EXCEPT !["app"] = o.s.tc]
    /\ tgtComponents' = [tgtComponents EXCEPT !["app"] = o.s.tr]
    /\ lists' = Collect(o.s.lists, tgtListeners')
    /\ extListeners' = o.s.el
    /\ extCommands' = o.s.ec
    /\ extComponents' = o.s.er
    /\ extData' = o.s.ed
    /\ extensions' = o.s.exts
    /\ sysModules' = o.s.mods
    /\ res' = [op |-> op, path |-> p, rel |-> rel, result |-> o.result,
               cause |-> o.cause,
               wasLoaded |-> rel = "abs" /\ p \in DOMAIN extensions,
               executed |-> o.executed, called |-> o.called]

LoadExtension(p, v, rel, k, fault, d) ==
    /\ used.xloads < lim.xloads
    /\ Becomes("load", p, rel, LoadExt(LoaderState, p, v, rel, k, fault, d))
    /\ used' = [used EXCEPT !.xloads = @ + 1]
    /\ UNCHANGED <<last, snap, lu, lim, notLoader>>

UnloadExtension(p, rel, fault) ==
    /\ used.xunloads < lim.xunloads
    /\ Becomes("unload", p, rel, UnloadExt(LoaderState, p, rel, fault))
    /\ used' = [used EXCEPT !.xunloads = @ + 1]
    /\ UNCHANGED <<last, snap, lu, lim, notLoader>>

\* The inputs a call can tell apart: the content of a module matters when the
\* module is executed, a fault when the function that has it is called.
ContentsFor(p, rel) ==
    IF p = "ext" /\ rel = "abs" THEN ExtContents
    ELSE {[ls |-> << >>, cs |-> << >>, rs |-> << >>]}

LoadFaultsFor(p, rel) == IF p = "extra" /\ rel = "abs" THEN LoadFaults ELSE {"none"}

DataFor(p, rel) == IF p = "ext" /\ rel = "abs" THEN DataValues ELSE {{}}

UnloadFaultsFor(p, rel) ==
    IF p = "extra" /\ rel = "abs" THEN UnloadFaults ELSE {"none"}

InitLoader ==
    InitWith([ext |-> 0, tgt |-> MaxAppItems, loads |-> 0, unloads |-> 0,
              oob |-> 0, xloads |-> MaxXLoads, xunloads |-> MaxXUnloads,
              targets |-> {"app"}])

NextLoader ==
    \/ \E p \in Paths, rel \in Rels :
          \E v \in VarNames, k \in ContentsFor(p, rel), fault \in LoadFaultsFor(p, rel),
             d \in DataFor(p, rel) :
             LoadExtension(p, v, rel, k, fault, d)
    \/ \E p \in Paths, rel \in Rels :
          \E fault \in UnloadFaultsFor(p, rel) : UnloadExtension(p, rel, fault)
    \/ \E n \in Names, i \in Inits, c \in Callbacks : TgtAddListener("app", n, i, c)
    \/ \E nm \in CmdNames : TgtAddCommand("app", nm)

SpecLoader == InitLoader /\ [][NextLoader]_vars

----------------------------------------------------------------------------
(* _is_submodule, called on module names up to a length. *)

MaxNameLen == 3

NameChars == {"p", "x", "."}

ModuleNames == UNION {[1..n -> NameChars] : n \in 0..MaxNameLen}

NoLimits ==
    [ext |-> 0, tgt |-> 0, loads |-> 0, unloads |-> 0, oob |-> 0, xloads |-> 0,
     xunloads |-> 0, targets |-> {}]

IsSubmoduleCall ==
    /\ ~subOut.done
    /\ subOut' = [done |-> TRUE, val |-> IsSubmodule(subA, subB)]
    /\ UNCHANGED <<subA, subB, extVars, loaderVars, userVars, laterVars>>

InitSub ==
    /\ InitExtVars(NoLimits)
    /\ InitUserVars
    /\ InitLaterVars
    /\ \E a \in ModuleNames, b \in ModuleNames : InitSubVars(a, b)

NextSub == IsSubmoduleCall

SpecSub == InitSub /\ [][NextSub]_vars

----------------------------------------------------------------------------
(* UserMemoryCache.  Users are objects 1..created; the cache refers to     *)
(* them weakly, `held` are the ones the application refers to.             *)

MaxUserObjs == 2   \* User objects constructed

IdKinds == {"int", "str"}   \* a payload's id: an int, or the digits of one
UserIds == {1, 2}
UserNames == {"a", "b"}
Discriminators == {"0001", "0002"}
PublicFlags == {<< >>, <<0>>, <<64>>}   \* the key is absent, or has a value

Payloads ==
    {Payload(k, n, nm, d, pf) : k \in IdKinds, n \in UserIds, nm \in UserNames,
                                d \in Discriminators, pf \in PublicFlags}

\* int(data['id'])
IntOf(id) == id.n

\* user.id == data['id']: an int equals an int of the same value, and no str.
IdEqualsByValue(uid, id) == uid = id.n

IdEquals(uid, id) == id.kind = "int" /\ uid = id.n

\* User.from_data(data)
FromData(data) ==
    [id |-> IntOf(data.id), name |-> data.username,
     discriminator |-> data.discriminator, public_flags |-> data.public_flags]

\* self._users.get(int(data['id'])): 0 stands for None.
UsersGet(key) == IF key \in DOMAIN cacheUsers THEN cacheUsers[key] ELSE 0

UpToDate(user, data) ==
    /\ user # 0
    /\ IdEquals(userObjs[user].id, data.id)
    /\ userObjs[user].name = data.username
    /\ userObjs[user].discriminator = data.discriminator
    /\ userObjs[user].public_flags = data.public_flags

\* What _store_user(data) returns: the cached user or a new one.
Stored(data) ==
    IF UpToDate(UsersGet(IntOf(data.id)), data) THEN UsersGet(IntOf(data.id))
    ELSE created + 1

\* UserMemoryCache._store_user(data); the caller keeps the result or not.
StoreUserIn(data, keep) ==
    /\ UpToDate(UsersGet(IntOf(data.id)), data) \/ created < MaxUserObjs
    /\ IF UpToDate(UsersGet(IntOf(data.id)), data)
       THEN UNCHANGED <<cacheUsers, userObjs, created>>
       ELSE /\ userObjs' = SetKey(userObjs, created + 1, FromData(data))
            /\ cacheUsers' = SetKey(cacheUsers, IntOf(data.id), created + 1)
            /\ created' = created + 1
    /\ held' = IF keep THEN held \cup {Stored(data)} ELSE held
    /\ uret' = [op |-> "store", data |-> data, obj |-> Stored(data),
                prior |-> UsersGet(IntOf(data.id)),
                priorHeld |-> UsersGet(IntOf(data.id)) \in held]

StoreUser(data, keep) == StoreUserIn(data, keep) /\ UNCHANGED notUser

\* The application drops its references to a user.
Release(o) ==
    /\ o \in held
    /\ held' = held \ {o}
    /\ uret' = NoRet
    /\ UNCHANGED <<cacheUsers, userObjs, created, notUser>>

\* A user nothing refers to strongly is reclaimed, and the weak dictionary
\* loses its entry.
Reclaim(o) ==
    /\ o \in DOMAIN userObjs \ held
    /\ userObjs' = DelKey(userObjs, o)
    /\ cacheUsers' = [k \in {x \in DOMAIN cacheUsers : cacheUsers[x] # o} |->
                         cacheUsers[k]]
    /\ uret' = NoRet
    /\ UNCHANGED <<held, created, notUser>>

InitUser == InitWith(NoLimits)

NextUser ==
    \/ \E data \in Payloads, keep \in BOOLEAN : StoreUser(data, keep)
    \/ \E o \in 1..MaxUserObjs : Release(o)
    \/ \E o \in 1..MaxUserObjs : Reclaim(o)

SpecUser == InitUser /\ [][NextUser]_vars

----------------------------------------------------------------------------
(* MemberMemoryCache.  Members are objects 1, 2, ... in the order of their *)
(* construction; a Member refers to its User, which stays alive with it.   *)

MaxMemberObjs == 2   \* Member objects constructed

GuildNums == {1, 2}

\* data['guild_id']: the key is absent, or has an id as the payload gives it.
GuildOpts == {<< >>} \cup {<<[kind |-> k, n |-> n]>> : k \in IdKinds, n \in GuildNums}

MemberPayloads ==
    {[guild |-> g, user |-> Payload(k, n, "a", "0001", << >>)] :
        g \in GuildOpts, k \in IdKinds, n \in UserIds}

\* An int, as a key of a dict: equal to an int of the same value, to no str.
IntKey(n) == [kind |-> "int", n |-> n]

\* 'guild_id' not in data
HasGuildId(data) == data.guild # << >>

\* dict.get(key), 0 standing for None
MembersGet(ms, key) == IF key \in DOMAIN ms THEN ms[key] ELSE 0

\* MemberMemoryCache.get_member(guild, user)
GetMemberOf(g, u) == MembersGet(members, <<IntKey(g), IntKey(u)>>)

\* (data['guild_id'], data['user']['id'])
RemoveKey(data) == <<data.guild[1], data.user.id>>

\* (guild_id, member.id)
AddKey(data, member) == <<data.guild[1], IntKey(member.id)>>

\* Member.from_user(user, data): the member has its user's id.
MemberFromUser(user, fields, data) ==
    [id |-> fields.id, user |-> user, g |-> data.guild[1].n]

AddedGet(g, u) == IF <<g, u>> \in DOMAIN added THEN added[<<g, u>>] ELSE 0

Called(op, data) ==
    [NoMret EXCEPT !.op = op, !.guild = data.guild, !.user = data.user.id,
                   !.g = IF HasGuildId(data) THEN data.guild[1].n ELSE 0,
                   !.u = data.user.id.n]

\* raise ValueError("Member data must contain extra 'guild_id' field"), after
\* the user of the payload was stored.
RefusedAfterStore(op, data) ==
    /\ StoreUserIn(data.user, TRUE)
    /\ mret' = [Called(op, data) EXCEPT !.result = "ValueError"]
    /\ UNCHANGED <<members, memberObjs, added>>

\* raise ValueError("Member data must contain extra 'guild_id' field")
Refused(op, data) ==
    /\ mret' = [Called(op, data) EXCEPT !.result = "ValueError"]
    /\ UNCHANGED <<members, memberObjs, added, userVars>>

\* _process_guild_member_add from self._store_user on, with ms the mapping it
\* finds and old what was popped before it.
AddMember(ms, data, op, old) ==
    /\ Cardinality(DOMAIN memberObjs) < MaxMemberObjs
    /\ StoreUserIn(data.user, TRUE)
    /\ memberObjs' = SetKey(memberObjs, Cardinality(DOMAIN memberObjs) + 1,
                            MemberFromUser(Stored(data.user),
                                           userObjs'[Stored(data.user)], data))
    /\ members' = SetKey(ms, AddKey(data, userObjs'[Stored(data.user)]),
                         Cardinality(DOMAIN memberObjs) + 1)
    /\ added' = SetKey(added, <<data.guild[1].n, data.user.id.n>>,
                       Cardinality(DOMAIN memberObjs) + 1)
    /\ mret' = [Called(op, data) EXCEPT
                   !.old = old,
                   !.new = Cardinality(DOMAIN memberObjs) + 1,
                   !.before = AddedGet(data.guild[1].n, data.user.id.n)]

\* MemberMemoryCache._process_guild_member_add(data)
GuildMemberAdd(data) ==
    /\ IF ~HasGuildId(data) THEN Refused("add", data)
       ELSE AddMember(members, data, "add", 0)
    /\ UNCHANGED notMember

\* MemberMemoryCache._process_guild_member_remove(data)
GuildMemberRemove(data) ==
    /\ IF ~HasGuildId(data) THEN Refused("remove", data)
       ELSE /\ members' = DelKey(members, RemoveKey(data))
            /\ added' = DelKey(added, <<data.guild[1].n, data.user.id.n>>)
            /\ mret' = [Called("remove", data) EXCEPT
                           !.old = MembersGet(members, RemoveKey(data)),
                           !.before = AddedGet(data.guild[1].n, data.user.id.n)]
            /\ UNCHANGED <<memberObjs, userVars>>
    /\ UNCHANGED notMember

\* MemberMemoryCache._process_guild_member_update(data): the remove handler,
\* then the add handler.
GuildMemberUpdate(data) ==
    /\ IF ~HasGuildId(data) THEN Refused("update", data)
       ELSE AddMember(DelKey(members, RemoveKey(data)), data, "update",
                      MembersGet(members, RemoveKey(data)))
    /\ UNCHANGED notMember

\* await cache.get_member(guild, user)
GetMember(g, u) ==
    /\ mret' = [NoMret EXCEPT !.op = "get", !.g = g, !.u = u,
                              !.got = GetMemberOf(g, u)]
    /\ UNCHANGED <<members, memberObjs, added, userVars, notMember>>

InitMember == InitWith(NoLimits)

NextMember ==
    \/ \E data \in MemberPayloads : GuildMemberAdd(data)
    \/ \E data \in MemberPayloads : GuildMemberRemove(data)
    \/ \E data \in MemberPayloads : GuildMemberUpdate(data)
    \/ \E g \in GuildNums, u \in UserIds : GetMember(g, u)

SpecMember == InitMember /\ [][NextMember]_vars

----------------------------------------------------------------------------
(* Component: waits, the callback and handle_interaction.  A wait is one   *)
(* call of Component.__call__, a task that blocks on its Result.           *)

MaxWaits == 2   \* calls of Component.__call__

Interactions == {"i1", "i2"}

\* A check, as the set of the interactions it accepts; the default accepts all.
Checks == SUBSET Interactions

CallbackIds == {1, 2}

\* Result(), and the task that is about to wait on it.
NewWait(check, timeout) ==
    [check |-> check, timeout |-> timeout, set |-> FALSE, value |-> "-",
     task |-> "blocked"]

\* Result.set(value)
ResultSet(st, w, i) == [st EXCEPT ![w].set = TRUE, ![w].value = i]

\* list.pop(0)
PopFirst(ws, idx) == SubSeq(ws, 2, Len(ws))

\* list.pop(index)
Pop(ws, idx) == SubSeq(ws, 1, idx - 1) \o SubSeq(ws, idx + 1, Len(ws))

\* for index, (check, result) in enumerate(self._waiters): the iterator goes
\* on to the next index of the list as it is after the pop.
RECURSIVE Scan(_, _, _, _)
Scan(ws, st, idx, i) ==
    IF idx > Len(ws) THEN [ws |-> ws, st |-> st]
    ELSE IF i \in st[ws[idx]].check
    THEN Scan(Pop(ws, idx), ResultSet(st, ws[idx], i), idx + 1, i)
    ELSE Scan(ws, st, idx + 1, i)

\* The waits whose task is blocked on a Result that is not set.
Blocked == {w \in DOMAIN waits : waits[w].task = "blocked" /\ ~waits[w].set}

Listed == {waiters[k] : k \in 1..Len(waiters)}

\* await component(check, timeout=...), up to the await
Wait(check, timeout) ==
    /\ Cardinality(DOMAIN waits) < MaxWaits
    /\ waits' = SetKey(waits, Cardinality(DOMAIN waits) + 1, NewWait(check, timeout))
    /\ waiters' = Append(waiters, Cardinality(DOMAIN waits) + 1)
    /\ cret' = [NoCret EXCEPT !.op = "wait"]
    /\ UNCHANGED <<compCallback, notComp>>

\* anyio.fail_after(timeout): the deadline passes while the task is blocked,
\* and the wait raises TimeoutError.
Timeout(w) ==
    /\ w \in Blocked
    /\ waits[w].timeout
    /\ waits' = [waits EXCEPT ![w].task = "timedout"]
    /\ cret' = [NoCret EXCEPT !.op = "timeout"]
    /\ UNCHANGED <<compCallback, waiters, notComp>>

\* Result.wait returns self.value to the task that was woken.
Return(w) ==
    /\ w \in DOMAIN waits
    /\ waits[w].task = "blocked"
    /\ waits[w].set
    /\ waits' = [waits EXCEPT ![w].task = "returned"]
    /\ cret' = [NoCret EXCEPT !.op = "return", !.interaction = waits[w].value]
    /\ UNCHANGED <<compCallback, waiters, notComp>>

\* Component.handle_interaction(interaction, tg=tg)
HandleInteraction(i) ==
    /\ waiters' = Scan(waiters, waits, 1, i).ws
    /\ waits' = Scan(waiters, waits, 1, i).st
    /\ cret' = [NoCret EXCEPT !.op = "handle", !.interaction = i,
                              !.started = compCallback, !.blocked = Blocked]
    /\ UNCHANGED <<compCallback, notComp>>

\* self._callback is not None and not override
AlreadySetWhateverOverride(cb, override) == cb # 0

AlreadySet(cb, override) == cb # 0 /\ ~override

\* Component.set_callback(callback, override=override)
SetCallback(cb, override) ==
    /\ compCallback' = IF AlreadySet(compCallback, override) THEN compCallback ELSE cb
    /\ cret' = [NoCret EXCEPT
                   !.op = "set_callback", !.given = cb, !.override = override,
                   !.before = compCallback,
                   !.result = IF AlreadySet(compCallback, override)
                              THEN "RuntimeError" ELSE "ok"]
    /\ UNCHANGED <<waiters, waits, notComp>>

InitComp == InitWith(NoLimits)

NextComp ==
    \/ \E check \in Checks, timeout \in BOOLEAN : Wait(check, timeout)
    \/ \E w \in 1..MaxWaits : Timeout(w)
    \/ \E w \in 1..MaxWaits : Return(w)
    \/ \E i \in Interactions : HandleInteraction(i)
    \/ \E cb \in CallbackIds, override \in BOOLEAN : SetCallback(cb, override)

SpecComp == InitComp /\ [][NextComp]_vars

-----------------------------------------------------------------------------
(* InteractionASGIApp: the ASGI endpoint for interactions. *)

EndpointMethods == {"POST", "PUT"}
EndpointPaths == {"/", "/x"}

\* InteractionASGIApp(app, method=M, path=P)
Configs == [method : EndpointMethods, path : EndpointPaths]

ScopeTypes == {"http", "websocket"}
RequestMethods == {"POST", "PUT", "GET"}
ContentTypes == {"absent", "json", "text"}

\* The bodies of the http.request messages of one request, in arrival order.
ChunkSeqs ==
    { <<"{\"type\": 1}">>,
      <<"{\"type\": ", "1}">>,
      <<"{\"type\": ", "2}">>,
      <<"1}", "{\"type\": ">>,
      <<"{}">> }

\* The value of the x-signature-timestamp header.
Timestamp == "t"

\* What the sender's signature was made over: the timestamp and the whole
\* body, the timestamp and the first chunk only, or something else.
SignedOver(chunks) ==
    { Timestamp \o chunks[1],
      IF Len(chunks) = 1 THEN Timestamp \o chunks[1]
                         ELSE Timestamp \o chunks[1] \o chunks[2],
      "forged" }

HttpRequests ==
    { [NoRequest EXCEPT !.type = "http", !.path = p, !.method = m, !.ctype = c,
                        !.sig = s, !.ts = x, !.signed = v, !.chunks = b] :
        p \in EndpointPaths, m \in RequestMethods, c \in ContentTypes,
        s \in BOOLEAN, x \in BOOLEAN,
        v \in UNION { SignedOver(k) : k \in ChunkSeqs }, b \in ChunkSeqs }

\* http scopes whose signature is one of those a sender of that body makes
SignedRequests == { r \in HttpRequests : r.signed \in SignedOver(r.chunks) }

OtherRequests ==
    { [NoRequest EXCEPT !.type = "websocket", !.path = p, !.method = m] :
        p \in EndpointPaths, m \in RequestMethods }

\* A host that leaves the optional more_body key out of its last message.
BareRequests ==
    { [r EXCEPT !.more = "absent"] :
        r \in { q \in SignedRequests :
                  /\ q.method = "POST" /\ q.ctype = "json" /\ q.sig /\ q.ts
                  /\ q.chunks = <<"{\"type\": 1}">> /\ q.signed # "forged" } }

\* The scopes the host hands to the endpoint, with what receive() delivers.
Requests == SignedRequests \cup OtherRequests \cup BareRequests

\* _verify_request_target with the method compared before the path.
VerifyRequestTargetMethodFirst(cfg, scope) ==
    IF scope.type # "http" THEN 501
    ELSE IF scope.method # "POST" THEN 405
    ELSE IF scope.path # cfg.path THEN 404
    ELSE 0

\* _verify_request_target: the status it answers with, 0 when it returns
\* False and sends nothing.
VerifyRequestTarget(cfg, scope) ==
    IF scope.type # "http" THEN 501
    ELSE IF scope.path # cfg.path THEN 404
    ELSE IF scope.method # "POST" THEN 405
    ELSE 0

ReasonPhrase(status) ==
    CASE status = 501 -> "Not Implemented"
      [] status = 404 -> "Not Found"
      [] status = 405 -> "Method Not Allowed"
      [] status = 401 -> "Unauthorized"
      [] OTHER -> ""

PlainResponse(status) ==
    [status |-> status, ctype |-> "text/plain", body |-> ReasonPhrase(status)]

\* _authenticate_request returns before reading the body, whatever the
\* headers that follow a content-type other than application/json.
HeadersRefusedWithoutSignature(scope) ==
    scope.ctype = "text"

\* _authenticate_request returns before reading the body.
HeadersRefused(scope) ==
    \/ scope.ctype = "text"
    \/ ~scope.sig
    \/ ~scope.ts

\* The receive loop when it stops after the first message.
ExtendFirstOnly(body, chunks) == body \o Head(chunks)

\* The receive loop: body.extend(request['body']) for each message.
RECURSIVE Extend(_, _)
Extend(body, chunks) ==
    IF chunks = << >> THEN body
    ELSE Extend(body \o Head(chunks), Tail(chunks))

\* InteractionApp.authenticate_request(signature, timestamp, body): the
\* signature is a signature of timestamp + body under the configured key.
AppAuthenticateRequest(signature, timestamp, body) ==
    signature = timestamp \o body

\* _authenticate_request: (verified, body), the message the verifier was
\* called with, and the exception raised.
AuthenticateRequest(scope) ==
    IF HeadersRefused(scope)
    THEN [verified |-> FALSE, body |-> "None", called |-> FALSE,
          raised |-> "none"]
    ELSE IF scope.more = "absent"
    THEN [verified |-> FALSE, body |-> "None", called |-> FALSE,
          raised |-> "KeyError"]
    ELSE [verified |-> AppAuthenticateRequest(scope.signed, Timestamp,
                                              Extend("", scope.chunks)),
          body |-> Extend("", scope.chunks), called |-> TRUE,
          raised |-> "none"]

\* json.loads(body) for the bodies of ChunkSeqs
JsonLoads(body) ==
    CASE body = "{\"type\": 1}" -> [ok |-> TRUE, keys |-> {"type"}, type |-> 1]
      [] body = "{\"type\": 2}" -> [ok |-> TRUE, keys |-> {"type"}, type |-> 2]
      [] body = "{}" -> [ok |-> TRUE, keys |-> {}, type |-> 0]
      [] OTHER -> [ok |-> FALSE, keys |-> {}, type |-> 0]

\* No decoded payload taken for a ping.
PingNever(data) == FALSE

\* data['type'] == 1
Ping(data) == data.type = 1

\* __call__ after json.loads returned data: the ping reply, the hand-over.
\* The class has no attribute handle_interaction.
Handled(data, o) ==
    IF ~data.ok THEN [o EXCEPT !.raised = "JSONDecodeError"]
    ELSE IF "type" \notin data.keys
    THEN [o EXCEPT !.decoded = TRUE, !.raised = "KeyError"]
    ELSE IF Ping(data)
    THEN [o EXCEPT !.decoded = TRUE,
                   !.sent = <<[status |-> 200, ctype |-> "application/json",
                               body |-> "{\"type\": 1}"]>>]
    ELSE [o EXCEPT !.decoded = TRUE, !.raised = "AttributeError"]

\* __call__ after _authenticate_request returned auth.
Authenticated(auth, o) ==
    IF auth.raised # "none"
    THEN [o EXCEPT !.raised = auth.raised]
    ELSE IF ~auth.verified \/ auth.body = "None"
    THEN [o EXCEPT !.authenticated = auth.called,
                   !.message = IF auth.called THEN Timestamp \o auth.body
                               ELSE "",
                   !.sent = <<PlainResponse(401)>>]
    ELSE Handled(JsonLoads(auth.body),
                 [o EXCEPT !.authenticated = TRUE, !.verified = TRUE,
                           !.message = Timestamp \o auth.body])

\* __call__ after _verify_request_target answered with gate.
Gated(scope, gate) ==
    IF gate # 0
    THEN [NoOutcome EXCEPT !.gate = gate, !.sent = <<PlainResponse(gate)>>]
    ELSE Authenticated(AuthenticateRequest(scope), NoOutcome)

\* await app(scope, receive, send) for a scope that is not a lifespan scope
Request(scope) ==
    /\ areq' = scope
    /\ aout' = Gated(scope, VerifyRequestTarget(asgiCfg, scope))
    /\ UNCHANGED <<asgiCfg, life, notAsgi>>

InitAsgi ==
    /\ InitExtVars(NoLimits)
    /\ InitSubVars(<< >>, << >>)
    /\ InitUserVars
    /\ InitMemberVars
    /\ InitCompVars
    /\ InitRespVars
    /\ InitGroupVars
    /\ InitLastVars
    /\ \E cfg \in Configs : InitAsgiVars(cfg)

NextAsgi == \E scope \in Requests : Request(scope)

SpecAsgi == InitAsgi /\ [][NextAsgi]_vars

-----------------------------------------------------------------------------
(* InteractionASGIApp: the lifespan protocol. *)

\* The lifespan events of the host; ok tells whether the application's
\* managed startup or shutdown returns normally when it runs for the event.
StartupEvent(ok) == [type |-> "lifespan.startup", ok |-> ok]
ShutdownEvent(ok) == [type |-> "lifespan.shutdown", ok |-> ok]

\* The acknowledgement _lifespan sends for an event.
AckFor(event) == event.type \o (IF event.ok THEN ".complete" ELSE ".failed")

\* What _lifespan awaits on the application for an event.
AppCallFor(event) ==
    IF event.type = "lifespan.startup" THEN "__aenter__" ELSE "__aexit__"

\* _lifespan after receive() returned event, up to its return.
LifespanHandled(l, event) ==
    IF event.type \in {"lifespan.startup", "lifespan.shutdown"}
    THEN [l EXCEPT !.call = "returned", !.chan = Tail(@),
                   !.app = Append(@, AppCallFor(event)),
                   !.acks = Append(@, AckFor(event))]
    ELSE [l EXCEPT !.call = "returned", !.chan = Tail(@)]

\* The host calls app(scope, receive, send) with scope['type'] == 'lifespan':
\* __call__ enters _lifespan, which awaits receive().
LifespanCall ==
    /\ life.call = "none"
    /\ life' = [life EXCEPT !.call = "receiving"]
    /\ UNCHANGED <<asgiCfg, areq, aout, notAsgi>>

\* The host puts an event on the lifespan channel.
Deliver(event) ==
    /\ life' = [life EXCEPT !.chan = Append(@, event),
                            !.delivered = Append(@, event)]
    /\ UNCHANGED <<asgiCfg, areq, aout, notAsgi>>

\* The host starts the application.
HostStartup(ok) ==
    /\ life.delivered = << >>
    /\ Deliver(StartupEvent(ok))

\* The host shuts down an application whose startup was acknowledged.
HostShutdown(ok) ==
    /\ Len(life.delivered) = 1
    /\ life.acks = <<"lifespan.startup.complete">>
    /\ Deliver(ShutdownEvent(ok))

\* receive() returns the next event to the waiting _lifespan, which handles
\* it and returns.
LifespanReceive ==
    /\ life.call = "receiving"
    /\ life.chan # << >>
    /\ life' = LifespanHandled(life, Head(life.chan))
    /\ UNCHANGED <<asgiCfg, areq, aout, notAsgi>>

\* The requests served while the lifespan channel is open.
NextLifespan ==
    \/ LifespanCall
    \/ \E ok \in BOOLEAN : HostStartup(ok)
    \/ \E ok \in BOOLEAN : HostShutdown(ok)
    \/ LifespanReceive
    \/ \E scope \in OtherRequests : Request(scope)

\* The host does call the application with the lifespan scope, and the event
\* loop resumes a task whose receive() has an event to return.
SpecLifespan ==
    /\ InitAsgi
    /\ [][NextLifespan]_vars
    /\ WF_vars(LifespanCall)
    /\ WF_vars(LifespanReceive)

-----------------------------------------------------------------------------
(* Interaction and ComponentInteraction: the response operations. *)

\* How many response operations run on the interaction.
MaxResponses == 1

\* The arguments of respond and update, as Python values.
ContentValues == {MISSING, "''", "'hi'"}
TtsValues == {MISSING, "False", "True"}
EmbedsValues == {MISSING, "[]", "[embed]"}
MentionValues == {MISSING, "AllowedMentions"}
EphemeralValues == {MISSING, "False", "True"}
ComponentValues == {MISSING, "[row]", "ComponentList(row)"}

ResponseArgs ==
    [content : ContentValues, tts : TtsValues, embeds : EmbedsValues,
     allowed_mentions : MentionValues, ephemeral : EphemeralValues,
     components : ComponentValues]

\* bool(value): the sentinel is falsy, like False and the empty values.
Truthy(value) == value \notin {MISSING, "False", "''", "[]"}

\* ComponentList(*components) when components is a list
AsComponentList(components) ==
    IF components = "[row]" THEN "ComponentList(row)" ELSE components

\* components.to_dict() if components else components
ComponentsValue(cl) == IF Truthy(cl) THEN "[row dict]" ELSE cl

\* allowed_mentions.data() if allowed_mentions else allowed_mentions
MentionsValue(am) == IF Truthy(am) THEN "mentions dict" ELSE am

\* 1 << 6
EphemeralFlag == "64"

\* The dict built from the parameters.
RawData(args) ==
    [content |-> args.content,
     tts |-> args.tts,
     embeds |-> args.embeds,
     allowed_mentions |-> MentionsValue(args.allowed_mentions),
     components |-> ComponentsValue(AsComponentList(args.components))]

\* if ephemeral: data['flags'] = 1 << 6
WithFlags(data, ephemeral) ==
    IF Truthy(ephemeral)
    THEN [k \in DOMAIN data \cup {"flags"} |->
             IF k = "flags" THEN EphemeralFlag ELSE data[k]]
    ELSE data

\* A filter that keeps the truthy values only.
KeptIfTruthy(value) == Truthy(value)

\* v is not MISSING
Kept(value) == value # MISSING

\* {k: v for k, v in data.items() if v is not MISSING}
Filtered(data) == [k \in { j \in DOMAIN data : Kept(data[j]) } |-> data[k]]

\* The data object of respond and update.
ResponseData(args) == Filtered(WithFlags(RawData(args), args.ephemeral))

\* Every operation answering with the response type of respond.
ResponseTypeAlwaysMessage(op) == 4

\* The response type each operation puts in the body.
ResponseType(op) ==
    CASE op = "respond" -> 4
      [] op = "defer" -> 5
      [] op = "defer_update" -> 6
      [] op = "update" -> 7

ResponseStart ==
    [type |-> "http.response.start", status |-> 200,
     ctype |-> "application/json"]

\* json.dumps({'type': ..., 'data': data}).encode(), as the object encoded
MessageBody(op, data) ==
    [type |-> "http.response.body",
     json |-> [type |-> ResponseType(op), data |-> data]]

\* b'{"type": 5}' and b'{"type": 6}', as the object encoded
DeferBody(op) ==
    [type |-> "http.response.body", json |-> [type |-> ResponseType(op)]]

\* The two awaits of self._send of a response operation.
Sent(op, args, body) ==
    /\ Len(isent) < 2 * MaxResponses
    /\ isent' = isent \o <<ResponseStart, body>>
    /\ iret' = [op |-> op, content |-> args.content, tts |-> args.tts,
                embeds |-> args.embeds,
                allowed_mentions |-> args.allowed_mentions,
                ephemeral |-> args.ephemeral, components |-> args.components]
    /\ UNCHANGED notResp

\* Interaction.respond(content, tts=, embeds=, allowed_mentions=, ephemeral=,
\* components=)
Respond(args) ==
    Sent("respond", args, MessageBody("respond", ResponseData(args)))

\* ComponentInteraction.update(...)
Update(args) ==
    Sent("update", args, MessageBody("update", ResponseData(args)))

\* Interaction.defer()
Defer == Sent("defer", NoIret, DeferBody("defer"))

\* ComponentInteraction.defer_update()
DeferUpdate == Sent("defer_update", NoIret, DeferBody("defer_update"))

InitResp == InitWith(NoLimits)

NextResp ==
    \/ \E args \in ResponseArgs : Respond(args)
    \/ \E args \in ResponseArgs : Update(args)
    \/ Defer
    \/ DeferUpdate

SpecResp == InitResp /\ [][NextResp]_vars

-----------------------------------------------------------------------------
(* SubcommandGroup: the routing of an invocation to a subcommand. *)

\* ApplicationCommandOption: subcommand = 1, subcommand_group = 2, string = 3
SubcommandTypes == {1, 2}

\* The group invoked, "root", holds the Command "a" and the nested group "g",
\* which holds the Command "b".
CommandsOf(group) ==
    IF group = "root"
    THEN [a |-> [kind |-> "command", id |-> "a"],
          g |-> [kind |-> "group", id |-> "g"]]
    ELSE [b |-> [kind |-> "command", id |-> "g.b"]]

\* CommandInteractionOption(data): name, type, data.get('value') with "None"
\* for None, and the nested options.
Option(name, type, value, options) ==
    [name |-> name, type |-> type, value |-> value, options |-> options]

\* An option of type string, as the options of a leaf Command are.
LeafOptions == { Option("text", 3, v, << >>) : v \in {"a", "hi"} }

\* The options nested in a top-level option.
NestedOptions ==
    { Option(n, 1, v, <<o>>) :
        n \in {"b", "x"}, v \in {"None", "b"}, o \in {Option("text", 3, "hi", << >>)} }
    \cup {Option("text", 3, "b", << >>)}

NestedLists == {<< >>} \cup { <<o>> : o \in NestedOptions }

\* The top-level options of type subcommand or subcommand_group: as the
\* platform sends them, without a value, and with one.
TopSubOptions ==
    { Option(n, t, v, l) :
        n \in {"a", "g", "x"}, t \in SubcommandTypes, v \in {"None", "a", "g"},
        l \in NestedLists }

\* The lists of top-level options an invocation receives.
OptionLists ==
    {<< >>}
    \cup { <<o>> : o \in TopSubOptions \cup LeafOptions }
    \cup { <<l, o>> : l \in LeafOptions, o \in TopSubOptions }
    \cup { <<o, p>> : o \in { q \in TopSubOptions : q.options = << >> },
                      p \in { q \in TopSubOptions :
                                q.options = << >> /\ q.type = 1 } }

IsSubcommandOption(option) == option.type \in SubcommandTypes

\* found = [option for option in options if option.type is subcommand or
\* option.type is subcommand_group]
Found(options) == SelectSeq(options, IsSubcommandOption)

\* self.commands.get(found[0].value): the key looked up
LookupKey(option) == option.value

\* if not found
NoneFound(found) == found = << >>

\* Command.invoke(interaction, options): the callback runs with the options.
CommandCalled(command, options) ==
    [result |-> "ok", invoked |-> <<[command |-> command.id, options |-> options]>>]

\* SubcommandGroup._inner_call(interaction, options), group.invoke included
RECURSIVE InnerCall(_, _)
InnerCall(group, options) ==
    IF NoneFound(Found(options))
    THEN [result |-> "ValueError", invoked |-> << >>]
    ELSE IF LookupKey(Found(options)[1]) \notin DOMAIN CommandsOf(group)
    THEN [result |-> "LookupError", invoked |-> << >>]
    ELSE IF CommandsOf(group)[LookupKey(Found(options)[1])].kind = "command"
    THEN CommandCalled(CommandsOf(group)[LookupKey(Found(options)[1])],
                       Found(options)[1].options)
    ELSE InnerCall(CommandsOf(group)[LookupKey(Found(options)[1])].id,
                   Found(options)[1].options)

\* await group.invoke(interaction, options) on the group "root"
Invoke(options) ==
    /\ gret' = [op |-> "invoke", options |-> options,
                result |-> InnerCall("root", options).result,
                invoked |-> InnerCall("root", options).invoked]
    /\ UNCHANGED notGroup

InitGroup == InitWith(NoLimits)

NextGroup == \E options \in OptionLists : Invoke(options)

SpecGroup == InitGroup /\ [][NextGroup]_vars

-----------------------------------------------------------------------------
(* SubcommandGroup: add_command and remove_command. *)

\* The command objects there are: two named "a", two named "b", one named
\* "c", and one whose name is None.  Instances of Command and of
\* SubcommandGroup are truthy: neither defines __bool__ or __len__.
CommandObjects == {"a1", "a2", "b1", "b2", "c1", "n1"}

\* command.name
NameOf(c) ==
    CASE c \in {"a1", "a2"} -> "a"
      [] c \in {"b1", "b2"} -> "b"
      [] c = "c1"           -> "c"
      [] OTHER              -> "None"

\* The outcome of a registration: the mapping afterwards and what was raised.
RegOutcome(cmds, result, why) == [commands |-> cmds, result |-> result, why |-> why]

\* self.commands.get(command.name), "None" standing for None
Get(cmds, n) == IF n \in DOMAIN cmds THEN cmds[n] ELSE "None"

\* found is not command
IsNotNever(found, c) == FALSE

IsNot(found, c) == found # c

\* SubcommandGroup.add_command(command)
GroupAdd(cmds, c) ==
    IF NameOf(c) = "None" THEN RegOutcome(cmds, "ValueError", "unnamed")
    ELSE IF NameOf(c) \in DOMAIN cmds
    THEN RegOutcome(cmds, "ValueError", "already registered")
    ELSE RegOutcome(SetKey(cmds, NameOf(c), c), "ok", "-")

\* SubcommandGroup.remove_command(command)
GroupRemove(cmds, c) ==
    IF NameOf(c) = "None" THEN RegOutcome(cmds, "ValueError", "unnamed")
    ELSE IF Get(cmds, NameOf(c)) = "None"
    THEN RegOutcome(cmds, "ValueError", "cannot find")
    ELSE IF IsNot(Get(cmds, NameOf(c)), c)
    THEN RegOutcome(cmds, "RuntimeError", "not the command passed in")
    ELSE RegOutcome(DelKey(cmds, NameOf(c)), "ok", "-")

Registered(op, c, o) ==
    /\ groupCommands' = o.commands
    /\ rret' = [op |-> op, command |-> c, result |-> o.result, why |-> o.why,
                before |-> groupCommands]
    /\ UNCHANGED notReg

AddCommand(c) == Registered("add", c, GroupAdd(groupCommands, c))

RemoveCommandOf(c) == Registered("remove", c, GroupRemove(groupCommands, c))

InitReg == InitWith(NoLimits)

NextReg ==
    \/ \E c \in CommandObjects : AddCommand(c)
    \/ \E c \in CommandObjects : RemoveCommandOf(c)

SpecReg == InitReg /\ [][NextReg]_vars

-----------------------------------------------------------------------------
(* Command: construction from a callback's parameters, and invocation. *)

\* inspect.Parameter.kind
ParamKinds == {"POSITIONAL_OR_KEYWORD", "KEYWORD_ONLY"}

\* option.kind in {option.kind.POSITIONAL_ONLY, option.kind.POSITIONAL_OR_KEYWORD}
IsPositionalAlways(kind) == TRUE

IsPositional(kind) == kind \in {"POSITIONAL_ONLY", "POSITIONAL_OR_KEYWORD"}

\* The annotations of a first parameter: none, the interaction class, a
\* subclass of it, another class, and a string (an annotation that is not a
\* class).
FirstAnnotations ==
    {"empty", "CommandInteraction", "SubInteraction", "int", "'CommandInteraction'"}

\* isinstance(ann, type)
IsType(ann) == ann \in {"CommandInteraction", "SubInteraction", "int"}

\* issubclass(ann, CommandInteraction)
IsSubclass(ann) == ann \in {"CommandInteraction", "SubInteraction"}

\* A parameter's default: a bare value ("empty" for none), or the object that
\* Option(default, name=name) returns.
Bare(v) == [isOption |-> FALSE, default |-> v, name |-> "None"]
OptionDefault(v, n) == [isOption |-> TRUE, default |-> v, name |-> n]

ParamDefaults ==
    {Bare("empty"), Bare("5"), OptionDefault("empty", "None"),
     OptionDefault("7", "None"), OptionDefault("7", "n")}

Param(name, ann, kind, default) ==
    [name |-> name, ann |-> ann, kind |-> kind, default |-> default]

\* The parameter lists a callback can have: the first parameter, then none,
\* `x`, or `x` and `y`.  Python's syntax has keyword-only parameters last and
\* no positional parameter without a default after one with a default.
FirstParams ==
    {Param("i", a, "POSITIONAL_OR_KEYWORD", Bare("empty")) : a \in FirstAnnotations}

LaterParams(name) ==
    {Param(name, "int", k, d) : k \in ParamKinds, d \in ParamDefaults}

Syntactic(x, y) ==
    /\ IsPositional(y.kind) => IsPositional(x.kind)
    /\ ~(IsPositional(y.kind) /\ x.default # Bare("empty") /\ y.default = Bare("empty"))

Signatures ==
    {<<f>> : f \in FirstParams}
    \cup {<<f, x>> : f \in FirstParams, x \in LaterParams("x")}
    \cup {s \in FirstParams \X LaterParams("x") \X LaterParams("y") :
              /\ s[1].ann \in {"empty", "CommandInteraction"}
              /\ Syntactic(s[2], s[3])}

\* OptionClass(default, name=name)
OptionClass(default, name) ==
    [name |-> name, param |-> "None", kind |-> "None", default |-> default,
     has_default |-> default # "empty"]

\* OptionClass.update(param): the option takes the parameter's name and kind,
\* and the parameter's name as its own when it has none.
OptionUpdate(option, param) ==
    [option EXCEPT !.name = IF @ = "None" THEN param.name ELSE @,
                   !.param = param.name,
                   !.kind = param.kind]

\* self.options[option.name] = option on an ordered mapping
OptionSet(options, option) ==
    IF \E k \in 1..Len(options) : options[k].name = option.name
    THEN [k \in 1..Len(options) |->
             IF options[k].name = option.name THEN option ELSE options[k]]
    ELSE Append(options, option)

Built(options, result) == [options |-> options, result |-> result]

\* Command._process_param(index, param)
ProcessParam(options, index, param) ==
    IF index = 0 /\ param.ann # "empty"
    THEN IF IsType(param.ann) /\ ~IsSubclass(param.ann)
         THEN Built(options, "TypeError")
         ELSE Built(options, "ok")
    ELSE Built(OptionSet(options,
                         OptionUpdate(IF param.default.isOption
                                THEN OptionClass(param.default.default, param.default.name)
                                ELSE OptionClass(param.default.default, "None"),
                                param)),
               "ok")

\* Command._process_return_type(annotation), for the positional options from
\* the k-th on; seen is pos_default.
RECURSIVE DefaultsFollow(_, _, _)
DefaultsFollow(options, k, seen) ==
    IF k > Len(options) THEN TRUE
    ELSE IF ~IsPositional(options[k].kind) THEN DefaultsFollow(options, k + 1, seen)
    ELSE IF ~options[k].has_default /\ seen THEN FALSE
    ELSE DefaultsFollow(options, k + 1, seen \/ options[k].has_default)

ProcessReturnType(options) ==
    Built(options, IF DefaultsFollow(options, 1, FALSE) THEN "ok" ELSE "TypeError")

\* CommandCallback: for index, param in enumerate(parameters):
\*     self._process_param(index, param)
\* and then self._process_return_type(...)
RECURSIVE ProcessParams(_, _, _)
ProcessParams(options, params, k) ==
    IF k > Len(params) THEN ProcessReturnType(options)
    ELSE IF ProcessParam(options, k - 1, params[k]).result # "ok"
    THEN ProcessParam(options, k - 1, params[k])
    ELSE ProcessParams(ProcessParam(options, k - 1, params[k]).options, params, k + 1)

\* Command(callback)
Construct(params) ==
    /\ pret' = [op |-> "construct", params |-> params,
                result |-> ProcessParams(<< >>, params, 1).result,
                options |-> ProcessParams(<< >>, params, 1).options]
    /\ kret' = NoKret
    /\ UNCHANGED notCmd

\* The options of an interaction's payload: name and value.
OptionData(name, value) == [name |-> name, value |-> value]

OptionPayloads ==
    { << >>, <<OptionData("x", "1")>>, <<OptionData("y", "2")>>,
      <<OptionData("x", "1"), OptionData("y", "2")>>, <<OptionData("y", "2"), OptionData("x", "1")>>,
      <<OptionData("n", "3")>>, <<OptionData("n", "3"), OptionData("x", "1")>> }

NoData == OptionData("None", "None")

\* mapping = {option.name: option for option in options}; mapping.get(name)
MappingGet(payload, name) ==
    IF \E k \in 1..Len(payload) : payload[k].name = name
    THEN payload[CHOOSE k \in 1..Len(payload) :
                    /\ payload[k].name = name
                    /\ \A j \in (k+1)..Len(payload) : payload[j].name # name]
    ELSE NoData

\* OptionClass.resolve(interaction, data): the value of the payload's option,
\* or the option's default when there is none.
Resolve(option, data) == IF data = NoData THEN option.default ELSE data.value

\* args and kwargs of Command._inner_call, from the k-th registered option on
RECURSIVE Assemble(_, _, _, _, _)
Assemble(options, payload, k, args, kwargs) ==
    IF k > Len(options) THEN [args |-> args, kwargs |-> kwargs]
    ELSE IF IsPositional(options[k].kind)
    THEN Assemble(options, payload, k + 1,
                  Append(args, Resolve(options[k], MappingGet(payload, options[k].name))),
                  kwargs)
    ELSE Assemble(options, payload, k + 1, args,
                  SetKey(kwargs, options[k].param,
                         Resolve(options[k], MappingGet(payload, options[k].name))))

CallbackOutcomes == {"returns", "raises"}

\* await command._inner_call(interaction, options): the callback is awaited
\* with the assembled arguments, and its failure propagates.
InnerCallOf(payload, outcome) ==
    /\ pret.op = "construct" /\ pret.result = "ok"
    /\ kret' = [op |-> "call", payload |-> payload,
                calls |-> <<Assemble(pret.options, payload, 1, << >>, << >>)>>,
                result |-> IF outcome = "raises" THEN "raised" ELSE "ok"]
    /\ UNCHANGED <<pret, notCmd>>

InitCmd == InitWith(NoLimits)

NextCmd ==
    \/ \E params \in Signatures : Construct(params)
    \/ \E payload \in OptionPayloads, outcome \in CallbackOutcomes :
           InnerCallOf(payload, outcome)

SpecCmd == InitCmd /\ [][NextCmd]_vars

-----------------------------------------------------------------------------
(* Context-menu commands: MessageCommand and UserCommand. *)

MaxMenuTasks == 2   \* tasks started on the task group

MenuClasses == {"MessageCommand", "UserCommand"}

\* The annotations of a callback's parameters: none (inspect.Parameter.empty)
\* or a class.
MenuAnnotations == {"empty", "CommandInteraction", "InteractionUser", "Message"}

\* The callbacks a command is constructed with: None, or a function of
\* (interaction, target) given by the annotations of its two parameters.
NoCallback == [isNone |-> TRUE, params |-> << >>]

MenuCallbacks ==
    {NoCallback} \cup
    {[isNone |-> FALSE, params |-> <<first, second>>] :
        first \in {"empty", "CommandInteraction"},
        second \in {"empty", "InteractionUser", "Message"}}

\* type(obj) of the objects an annotation or `argument` can be: the classes
\* and inspect.Parameter.empty are classes, MISSING is the sentinel.
TypeOf(obj) == IF obj = "MISSING" THEN "MissingType" ELSE "type"

\* isinstance(obj, cls), for cls one of the classes above
IsInstance(obj, cls) == TypeOf(obj) = cls

\* ContextMenuCommand._set_callback(function): self.argument afterwards, from
\* the k-th parameter on
RECURSIVE Argument(_, _)
Argument(function, k) ==
    IF k > Len(function) THEN MISSING
    ELSE IF IsInstance(function[k], "CommandInteraction") THEN Argument(function, k + 1)
    ELSE function[k]

\* ContextMenuCommand(callback): the command constructed
MenuCommand(cls, callback) ==
    [cls |-> cls, callback |-> callback,
     argument |-> IF callback.isNone THEN MISSING ELSE Argument(callback.params, 1)]

\* The interactions: target_id, and whether resolved.users and
\* resolved.messages have an entry under the target id.
MenuInteractions ==
    [target_id : {"None", "7"}, user : BOOLEAN, message : BOOLEAN]

Resolved(raised, value) == [raised |-> raised, value |-> value]

\* MessageCommand.resolve_value(interaction); asserts is false when Python
\* runs with -O.
MessageResolve(interaction, asserts) ==
    IF interaction.target_id = "None" THEN Resolved("CommandSetupError", "None")
    ELSE IF ~interaction.message /\ asserts THEN Resolved("AssertionError", "None")
    ELSE Resolved("none", IF interaction.message THEN "message:7" ELSE "None")

\* UserCommand.resolve_value(interaction)
UserResolve(argument, interaction) ==
    IF interaction.target_id = "None" THEN Resolved("CommandSetupError", "None")
    ELSE IF IsInstance(argument, "InteractionUser")
    THEN Resolved("none", IF interaction.user THEN "user:7" ELSE "None")
    ELSE Resolved("CommandSetupError", "None")

ResolveValue(cmd, interaction, asserts) ==
    IF cmd.cls = "MessageCommand" THEN MessageResolve(interaction, asserts)
    ELSE UserResolve(cmd.argument, interaction)

\* value is None or self.callback is None
AbsentValueOnly(value, callback) == value = "None"

Absent(value, callback) == value = "None" \/ callback.isNone

\* partial(self.callback, interaction, value), started on the task group
Task(callback, interaction, value) ==
    [callback |-> callback, interaction |-> interaction, value |-> value,
     state |-> "scheduled"]

\* MessageCommand(callback) / UserCommand(callback)
NewMenuCommand(cls, callback) ==
    /\ xret' = [NoXret EXCEPT !.op = "new", !.cmd = MenuCommand(cls, callback)]
    /\ UNCHANGED notMenu

\* command.handle_interaction(interaction, tg=tg), where r is what
\* resolve_value gave
MenuHandled(interaction, r) ==
    /\ xret' = [xret EXCEPT
                   !.op = "handle",
                   !.interaction = interaction,
                   !.raised = r.raised,
                   !.value = r.value,
                   !.returned = r.raised = "none",
                   !.tasks = IF r.raised # "none" \/ Absent(r.value, xret.cmd.callback)
                             THEN @
                             ELSE Append(@, Task(xret.cmd.callback, interaction, r.value))]
    /\ UNCHANGED notMenu

MenuHandleInteraction(interaction, asserts) ==
    /\ xret.op # "none"
    /\ Len(xret.tasks) < MaxMenuTasks
    /\ MenuHandled(interaction, ResolveValue(xret.cmd, interaction, asserts))

\* The task group runs a task that was started: the callback finishes, fails,
\* or is suspended for good.
TaskOutcomes == {"finished", "failed", "suspended"}

RunTask(k, outcome) ==
    /\ k \in 1..Len(xret.tasks)
    /\ xret.tasks[k].state = "scheduled"
    /\ xret' = [xret EXCEPT !.op = "task", !.tasks[k].state = outcome]
    /\ UNCHANGED notMenu

InitMenu == InitWith(NoLimits)

NextMenu ==
    \/ \E cls \in MenuClasses, callback \in MenuCallbacks : NewMenuCommand(cls, callback)
    \/ \E interaction \in MenuInteractions, asserts \in BOOLEAN :
           MenuHandleInteraction(interaction, asserts)
    \/ \E k \in 1..MaxMenuTasks, outcome \in TaskOutcomes : RunTask(k, outcome)

SpecMenu == InitMenu /\ [][NextMenu]_vars

-----------------------------------------------------------------------------
(* ComponentEmoji.from_string. *)

\* [0-9]{13,20}
MinIdDigits == 13
MaxIdDigits == 20

\* A string is the sequence of its characters.
Repeat(c, k) == [i \in 1..k |-> c]

\* The strings from_string is called with: an optional "<", an optional "a",
\* an optional ":", a name, a separator, a run of digits and an ending.
EmojiNames == {<< >>, <<"b">>, <<"a", "b">>, <<"_", "1">>, <<"é">>}

DigitRuns ==
    {Repeat("1", k) : k \in {0, MinIdDigits - 1, MinIdDigits, 15, MaxIdDigits,
                             MaxIdDigits + 1}}
    \cup {<<"0">> \o Repeat("1", MinIdDigits - 1)}

Endings == {<< >>, <<">">>, <<">", "x">>, <<"x">>}

EmojiStrings ==
    {lt \o a \o colon \o name \o sep \o digits \o ending :
        lt \in {<< >>, <<"<">>}, a \in {<< >>, <<"a">>},
        colon \in {<< >>, <<":">>}, name \in EmojiNames,
        sep \in {<< >>, <<":">>}, digits \in DigitRuns, ending \in Endings}

\* [A-Za-z0-9\_]
IsNameChar(c) == c \in {"a", "b", "x", "_", "0", "1"}

\* [0-9]
IsDigit(c) == c \in {"0", "1"}

\* The character at position i, "" past the end of the string.
At(s, i) == IF i \in 1..Len(s) THEN s[i] ELSE ""

\* How many digits follow one another from position i on.
RECURSIVE DigitRun(_, _)
DigitRun(s, i) == IF IsDigit(At(s, i)) THEN 1 + DigitRun(s, i + 1) ELSE 0

Least(a, b) == IF a < b THEN a ELSE b

\* The ways REGEX matches at the start of s: whether "<", "a" and ":" are
\* taken (lt, a, colon), and the length of the name.  The id takes as many
\* digits as there are, up to MaxIdDigits; nothing has to follow it.
Matches(s) ==
    {c \in [lt : {0, 1}, a : {0, 1}, colon : {0, 1}, name : 1..Len(s)] :
        /\ c.lt = 1 => At(s, 1) = "<"
        /\ c.a = 1 => At(s, c.lt + 1) = "a"
        /\ c.colon = 1 => At(s, c.lt + c.a + 1) = ":"
        /\ \A i \in 1..c.name : IsNameChar(At(s, c.lt + c.a + c.colon + i))
        /\ At(s, c.lt + c.a + c.colon + c.name + 1) = ":"
        /\ DigitRun(s, c.lt + c.a + c.colon + c.name + 2) >= MinIdDigits}

\* The order in which the regex engine tries them: every quantifier is
\* greedy, and the engine backtracks on the last one first.
Rank(s, c) == ((c.lt * 2 + c.a) * 2 + c.colon) * (Len(s) + 1) + c.name

\* REGEX.match(value): the match the engine finds first
FirstMatch(s) == CHOOSE c \in Matches(s) : \A d \in Matches(s) : Rank(s, c) >= Rank(s, d)

\* int(digits), as its decimal digits
RECURSIVE DecimalOf(_)
DecimalOf(digits) ==
    IF Len(digits) > 1 /\ digits[1] = "0" THEN DecimalOf(Tail(digits)) ELSE digits

\* ComponentEmoji(name=..., animated=..., id=...); the id is DISCORD_EPOCH << 22
\* when none is given.
Emoji(name, animated, id) == [name |-> name, animated |-> animated, id |-> id]

DefaultId == <<"DISCORD_EPOCH << 22">>

\* ComponentEmoji.from_string(value), with the match m when there is one
FromMatch(s, m) ==
    Emoji(SubSeq(s, m.lt + m.a + m.colon + 1, m.lt + m.a + m.colon + m.name),
          m.a = 1,
          DecimalOf(SubSeq(s, m.lt + m.a + m.colon + m.name + 2,
                       m.lt + m.a + m.colon + m.name + 1
                         + Least(MaxIdDigits,
                                 DigitRun(s, m.lt + m.a + m.colon + m.name + 2)))))

FromStringOf(s) ==
    IF Matches(s) = {} THEN Emoji(s, FALSE, DefaultId) ELSE FromMatch(s, FirstMatch(s))

\* from_string is a class method without state: one call is looked at.
FromString(value) ==
    /\ eret.op = "none"
    /\ eret' = [op |-> "from_string", value |-> value, emoji |-> FromStringOf(value)]
    /\ UNCHANGED notEmoji

InitEmoji == InitWith(NoLimits)

NextEmoji == \E value \in EmojiStrings : FromString(value)

SpecEmoji == InitEmoji /\ [][NextEmoji]_vars

----------------------------------------------------------------------------
(* Properties of Extension.load and Extension.unload. *)

Max(a, b) == IF a > b THEN a ELSE b

\* The callbacks a listener view holds under (n, i); none when there is no
\* such bucket.
Bucket(lv, n, i) ==
    IF n \in DOMAIN lv /\ i \in DOMAIN lv[n] THEN lv[n][i] ELSE <<>>

ExtBucket(n, i) ==
    IF n \in DOMAIN extListeners /\ i \in DOMAIN extListeners[n]
    THEN lists[extListeners[n][i]] ELSE <<>>

\* A load directly followed by an unload of the same target has just ended.
RoundTrip == snap.stage = "roundtrip"

DisjointCommands == CmdKeys(snap.view.commands) \cap CmdKeys(extCommands) = {}

\* Before the load the target held no empty container and no empty list, and
\* none of its lists held a callback (component) the extension has in the
\* same place.
NothingInCommon ==
    /\ \A n \in DOMAIN snap.view.listeners :
          /\ DOMAIN snap.view.listeners[n] # {}
          /\ \A i \in DOMAIN snap.view.listeners[n] :
                /\ snap.view.listeners[n][i] # <<>>
                /\ \A c \in Callbacks :
                      ~(Has(snap.view.listeners[n][i], c) /\ Has(ExtBucket(n, i), c))
    /\ \A c \in Components :
          ~(Has(snap.view.components, c) /\ Has(extComponents, c))

\* C2 as claimed: after load then unload, every target whose command names
\* are disjoint from the extension's is exactly as it was before the load.
C2_RoundTripAnyTarget ==
    (RoundTrip /\ DisjointCommands) => View(snap.tgt) = snap.view

\* C2, amended: after load then unload, a target whose command names are
\* disjoint from the extension's, that held no empty bucket or container and
\* shared no callback or component with the extension's lists, has its
\* listener mapping, command mapping and component list exactly as before.
C2_RoundTrip ==
    (RoundTrip /\ DisjointCommands /\ NothingInCommon) => View(snap.tgt) = snap.view

C2_Witness ==
    /\ RoundTrip /\ DisjointCommands /\ NothingInCommon
    /\ "ready" \in DOMAIN extListeners
    /\ "ping" \in CmdKeys(extCommands)
    /\ snap.view.listeners # EmptyMap

\* C3 as claimed: after load then unload, every command the target had before
\* the load is still registered under its name, the same object.
C3_CommandsKeptAlways ==
    RoundTrip =>
        \A n \in CmdKeys(snap.view.commands) :
            /\ n \in CmdKeys(tgtCommands[snap.tgt])
            /\ CmdGet(tgtCommands[snap.tgt], n) = CmdGet(snap.view.commands, n)

\* C3, amended: after load then unload, a command the target had before the
\* load under a name the extension does not own is still registered, the same
\* object; a name the extension owns is not registered any more.
C3_CommandsKept ==
    RoundTrip =>
        /\ \A n \in CmdKeys(snap.view.commands) \ CmdKeys(extCommands) :
              /\ n \in CmdKeys(tgtCommands[snap.tgt])
              /\ CmdGet(tgtCommands[snap.tgt], n) = CmdGet(snap.view.commands, n)
        /\ \A n \in CmdKeys(extCommands) : n \notin CmdKeys(tgtCommands[snap.tgt])

C3_Witness ==
    /\ RoundTrip
    /\ CmdKeys(snap.view.commands) \cap CmdKeys(extCommands) # {}
    /\ Len(extCommands) = 2

\* No list object of a target is a list object of the extension.
NoSharedList ==
    \A t \in Targets : \A n \in DOMAIN tgtListeners[t] :
        \A i \in DOMAIN tgtListeners[t][n] : tgtListeners[t][n][i][1] = t

ViewAfter(t) == ViewOf(lists', tgtListeners'[t], tgtCommands'[t], tgtComponents'[t])

\* C4: a registration made on the extension leaves every target as it was,
\* and no target ever holds a list object of the extension.
C4_ExtensionAddsDoNotLeak ==
    [][ /\ used'.ext = used.ext + 1 => \A t \in Targets : ViewAfter(t) = View(t)
        /\ NoSharedList' ]_vars

C4_Witness ==
    /\ last.op = "ext_add"
    /\ used.loads = 2
    /\ \A t \in Targets :
          \E n \in DOMAIN tgtListeners[t] : \E i \in DOMAIN tgtListeners[t][n] :
              /\ Len(ExtBucket(n, i)) = 2
              /\ lists[tgtListeners[t][n][i]] = <<ExtBucket(n, i)[1]>>

\* Some removal attempt of an unload of target t must fail: a callback or a
\* component of the extension is missing from the target.
SomethingMissing(t) ==
    \/ \E n \in Names, i \in Inits, c \in Callbacks :
          Count(ExtBucket(n, i), c) > Count(Bucket(View(t).listeners, n, i), c)
    \/ \E c \in Components : Count(extComponents, c) > Count(tgtComponents[t], c)

UnloadedAll(t) ==
    /\ \A n \in Names, i \in Inits, c \in Callbacks :
          Count(Bucket(ViewAfter(t).listeners, n, i), c)
            = Max(0, Count(Bucket(View(t).listeners, n, i), c)
                       - Count(ExtBucket(n, i), c))
    /\ CmdKeys(tgtCommands'[t]) = CmdKeys(tgtCommands[t]) \ CmdKeys(extCommands)
    /\ \A c \in Components :
          Count(tgtComponents'[t], c)
            = Max(0, Count(tgtComponents[t], c) - Count(extComponents, c))

\* C5: whatever the target holds, an unload removes every callback, command
\* and component of the extension that the target still holds, and raises
\* once, at its end, exactly when a listener or component removal failed.
C5_UnloadNeverStopsPartway ==
    [][ used'.unloads = used.unloads + 1 =>
            /\ UnloadedAll(last'.tgt)
            /\ last'.raised = IF SomethingMissing(last'.tgt) THEN 1 ELSE 0 ]_vars

C5_Witness ==
    /\ last.op = "unload" /\ last.raised = 1 /\ last.fails = 1
    /\ used.oob = 1 /\ used.ext = 2 /\ used.tgt = 1
    /\ Len(tgtCommands[last.tgt]) + Len(tgtComponents[last.tgt]) = 1
    /\ tgtListeners[last.tgt] = EmptyMap

\* C6: Extension.data gives the data of the most recent load when no unload
\* came after it, and fails before the first load and after an unload.
C6_DataOnlyWhileLoaded ==
    /\ lu.op = "load" => Data(extData) = [raised |-> FALSE, val |-> lu.data]
    /\ lu.op # "load" => Data(extData).raised

C6_Witness ==
    /\ lu.op = "load" /\ lu.data = {} /\ used.unloads = 1 /\ used.loads = 2
    /\ ~Data(extData).raised

\* The commands of the extension that the target's mapping no longer holds.
MissingCommands(t) ==
    {k \in 1..Len(extCommands) : extCommands[k].name \notin CmdKeys(tgtCommands[t])}

\* C38: every removal attempt of an unload that fails is remembered: when a
\* command of the extension is no longer in the target's command mapping,
\* the failed deletion is recorded and the unload raises at its end, the
\* recorded failures being at least the commands that were missing.
C38_FailedDeletionRemembered ==
    [][ (/\ used'.unloads = used.unloads + 1
         /\ "CommandRegistrar" \in Caps(last'.tgt)
         /\ MissingCommands(last'.tgt) # {})
            => /\ last'.raised = 1
               /\ last'.fails >= Cardinality(MissingCommands(last'.tgt)) ]_vars


----------------------------------------------------------------------------
(* Properties of ExtensionLoader. *)

\* C1: after unload_extension has returned or raised for a path that was
\* loaded, the path is no longer registered as loaded (so that a following
\* unload_extension fails with ValueError and a following load_extension is
\* not rejected as already loaded).
C1_UnloadedPathForgotten ==
    (res.op = "unload" /\ res.wasLoaded) => res.path \notin DOMAIN extensions

LoadStep == used'.xloads = used.xloads + 1

\* C7: load_extension of a path that is already loaded fails with ValueError
\* before the module is executed or its loader called, and leaves the loaded
\* extensions, the listener mapping and the command mapping as they were.
C7_AlreadyLoadedRejected ==
    [][(LoadStep /\ res'.rel = "abs" /\ res'.path \in DOMAIN extensions)
          => /\ res'.result = "ValueError"
             /\ ~res'.executed
             /\ ~res'.called
             /\ extensions' = extensions
             /\ sysModules' = sysModules
             /\ View("app")' = View("app")]_vars

C7_Witness ==
    /\ res.op = "load"
    /\ res.wasLoaded
    /\ res.result = "ValueError"
    /\ tgtCommands["app"] # << >>
    /\ DOMAIN tgtListeners["app"] # {}

\* C8: a load_extension that executed the module and failed leaves the path
\* unrecorded and the module entry removed, and a failure of the module's
\* execution or of the loader call is raised as ExtensionFailure.
C8_FailedLoadRolledBack ==
    (res.op = "load" /\ res.executed /\ res.result # "ok")
        => /\ res.path \notin DOMAIN extensions
           /\ res.path \notin sysModules
           /\ (res.cause \in {"exec", "loader"} => res.result = "ExtensionFailure")


UnloadStep == used'.xunloads = used.xunloads + 1

\* The callbacks of module m (or of a dotted submodule of it) in a list.
OfModule(s, m) ==
    SelectSeq(s, LAMBDA c : IsSubmodule(Chars(CallbackModule(c)), Chars(m)))

NotOfModule(s, m) ==
    SelectSeq(s, LAMBDA c : ~IsSubmodule(Chars(CallbackModule(c)), Chars(m)))

\* The commands the sweep for m has to remove, and those it has to leave.
SweptCommands(cs, m) ==
    SelectSeq(cs, LAMBDA c : ~c.group /\ IsSubmodule(Chars(c.mod), Chars(m)))

KeptCommands(cs, m) ==
    SelectSeq(cs, LAMBDA c : c.group \/ ~IsSubmodule(Chars(c.mod), Chars(m)))

\* C36: when the loader callable or the unload callable raises, the sweep for
\* the module completes: afterwards no listener callback and no non-group
\* command of that module or of a dotted submodule of it is registered, the
\* listeners and commands of other modules are still registered, and the
\* operation raises ExtensionFailure.
C36_SweepCompletes ==
    [][((LoadStep \/ UnloadStep) /\ res'.cause \in {"loader", "unloader"})
          => /\ res'.result = "ExtensionFailure"
             /\ SweptCommands(tgtCommands'["app"], res'.path) = << >>
             /\ \A n \in DOMAIN tgtListeners'["app"] :
                    \A i \in DOMAIN tgtListeners'["app"][n] :
                        OfModule(lists'[tgtListeners'["app"][n][i]], res'.path) = << >>
             /\ \A k \in 1..Len(tgtCommands["app"]) :
                    LET c == tgtCommands["app"][k]
                    IN  (c.group \/ ~IsSubmodule(Chars(c.mod), Chars(res'.path)))
                            => \E j \in 1..Len(tgtCommands'["app"]) :
                                   tgtCommands'["app"][j] = c
             /\ \A n \in DOMAIN tgtListeners["app"] :
                    \A i \in DOMAIN tgtListeners["app"][n] :
                        LET kept == NotOfModule(lists[tgtListeners["app"][n][i]], res'.path)
                        IN  kept # << >>
                              => /\ n \in DOMAIN tgtListeners'["app"]
                                 /\ i \in DOMAIN tgtListeners'["app"][n]
                                 /\ NotOfModule(lists'[tgtListeners'["app"][n][i]],
                                                res'.path) = kept]_vars


----------------------------------------------------------------------------
(* Properties of _is_submodule. *)

\* C9: _is_submodule(a, b) is true exactly when a equals b or a is b, then
\* ".", then anything; a name that continues b with another character than
\* "." is never a match.
C9_SubmoduleExactly ==
    subOut.done =>
        /\ subOut.val <=> (\/ subA = subB
                           \/ \E rest \in ModuleNames : subA = subB \o <<".">> \o rest)
        /\ (Len(subA) > Len(subB) /\ subA[Len(subB) + 1] # ".") => ~subOut.val

C9_Witness ==
    /\ subOut.done
    /\ subA = <<"p", "x">>
    /\ subB = <<"p">>
    /\ ~subOut.val

----------------------------------------------------------------------------
(* Properties of UserMemoryCache. *)

\* C10: _store_user with a payload whose id, name, discriminator and
\* public_flags equal those of the user cached under that id, which is still
\* referred to, returns that very user and keeps the entry; with a payload
\* that differs in one of them it returns a new user, which the entry then
\* refers to.
C10_SameUserReused ==
    (uret.op = "store" /\ uret.prior # 0 /\ uret.priorHeld) =>
        LET u == userObjs[uret.prior]
            d == uret.data
        IN  IF /\ IdEqualsByValue(u.id, d.id)
               /\ u.name = d.username
               /\ u.discriminator = d.discriminator
               /\ u.public_flags = d.public_flags
            THEN uret.obj = uret.prior /\ cacheUsers[IntOf(d.id)] = uret.prior
            ELSE uret.obj # uret.prior /\ cacheUsers[IntOf(d.id)] = uret.obj

----------------------------------------------------------------------------
(* Properties of MemberMemoryCache. *)

\* The Member objects constructed for guild g and user u.
MembersFor(g, u) ==
    {m \in DOMAIN memberObjs : memberObjs[m].g = g /\ memberObjs[m].id = u}

\* C11: after the add handler has processed a payload for guild G and user
\* U, get_member(G, U) returns the member the handler returned, and
\* get_member returns a member only for a pair that was added.
C11_AddedMemberFound ==
    /\ (mret.op = "add" /\ mret.result = "ok")
          => GetMemberOf(mret.g, mret.u) = mret.new
    /\ \A g \in GuildNums, u \in UserIds :
          GetMemberOf(g, u) # 0 => GetMemberOf(g, u) \in MembersFor(g, u)

\* C12: the remove handler returns the member that was added for the guild
\* and user of its payload, after which get_member returns absent for them;
\* for a pair that is not cached it returns absent.
C12_RemoveReturnsAdded ==
    (mret.op = "remove" /\ mret.result = "ok")
        => /\ mret.old = mret.before
           /\ GetMemberOf(mret.g, mret.u) = 0

\* The keys of the cache that stand for guild g and user u.
KeysFor(g, u) == {k \in DOMAIN members : k[1].n = g /\ k[2].n = u}

\* C13: the update handler returns the member cached before for the guild
\* and user of its payload (or absent) and the new member, and the cache then
\* holds one entry for them, the new member.
C13_UpdateIsRemoveThenAdd ==
    (mret.op = "update" /\ mret.result = "ok")
        => /\ mret.old = mret.before
           /\ mret.new \in MembersFor(mret.g, mret.u)
           /\ \A k \in KeysFor(mret.g, mret.u) : members[k] = mret.new
           /\ Cardinality(KeysFor(mret.g, mret.u)) = 1

\* C14: the add, remove and update handlers, called with a payload that has
\* no guild_id, fail with ValueError and leave the member cache and the user
\* cache as they were.
C14_NoGuildIdRefused ==
    [][(mret'.op \in {"add", "remove", "update"} /\ mret'.guild = << >>)
          => /\ mret'.result = "ValueError"
             /\ members' = members
             /\ memberObjs' = memberObjs
             /\ cacheUsers' = cacheUsers
             /\ userObjs' = userObjs
             /\ created' = created]_vars

C14_Witness ==
    /\ mret.op = "update"
    /\ mret.guild = << >>
    /\ mret.result = "ValueError"
    /\ members # EmptyMap
    /\ mret.u \in DOMAIN cacheUsers

----------------------------------------------------------------------------
(* Properties of Component. *)

\* C15: after handle_interaction no waiter whose check accepts the
\* interaction is still in the pending list, and every wait that was blocked
\* in the list with such a check has its result set.
C15_AcceptedWaitersGone ==
    cret.op = "handle"
        => /\ \A w \in Listed : cret.interaction \notin waits[w].check
           /\ \A w \in cret.blocked :
                 cret.interaction \in waits[w].check => waits[w].set

\* C16: a wait that failed with TimeoutError is no longer in the pending
\* list, and is not resolved afterwards.
C16_TimedOutWaiterRemoved ==
    \A w \in DOMAIN waits :
        waits[w].task = "timedout" => w \notin Listed /\ ~waits[w].set

\* C17: handle_interaction wakes, with the interaction, exactly those blocked
\* waits whose own check accepts it; the others stay blocked.
C17_WaitsIndependent ==
    cret.op = "handle"
        => \A w \in cret.blocked :
              IF cret.interaction \in waits[w].check
              THEN waits[w].set /\ waits[w].value = cret.interaction
              ELSE ~waits[w].set /\ waits[w].task = "blocked"

\* C18: set_callback stores the callback when none is set or override is
\* true; otherwise it raises RuntimeError and the stored callback stays.
C18_SetCallback ==
    [][cret'.op = "set_callback"
          => IF compCallback = 0 \/ cret'.override
             THEN cret'.result = "ok" /\ compCallback' = cret'.given
             ELSE cret'.result = "RuntimeError" /\ compCallback' = compCallback]_vars

C18_Witness ==
    /\ cret.op = "set_callback"
    /\ cret.result = "RuntimeError"
    /\ compCallback # 0
    /\ compCallback # cret.given

\* C39: handle_interaction resolves only listed waiters that were not
\* resolved before and whose check accepts the interaction, each with that
\* interaction; a waiter that was already resolved is not resolved again;
\* the pending list afterwards is the list before without the waiters that
\* are resolved, in the same order; a registration appends to the list and
\* every other step leaves it as it is.
C39_WaitersResolvedOnce ==
    [][ /\ cret'.op = "handle" =>
              /\ \A w \in DOMAIN waits :
                    IF waits'[w].set /\ ~waits[w].set
                    THEN /\ w \in Listed
                         /\ cret'.interaction \in waits[w].check
                         /\ waits'[w].value = cret'.interaction
                    ELSE waits'[w] = waits[w]
              /\ waiters' = SelectSeq(waiters, LAMBDA w : ~waits'[w].set)
        /\ cret'.op = "wait" =>
              /\ Len(waiters') = Len(waiters) + 1
              /\ SubSeq(waiters', 1, Len(waiters)) = waiters
        /\ cret'.op \notin {"handle", "wait"} => waiters' = waiters ]_vars

C39_Witness ==
    /\ cret.op = "handle"
    /\ waiters = <<1>>
    /\ 2 \in DOMAIN waits
    /\ ~waits[1].set
    /\ waits[2].set /\ waits[2].value = cret.interaction
    /\ cret.interaction \notin waits[1].check

-----------------------------------------------------------------------------
(* Properties of InteractionASGIApp. *)

\* The statuses of the responses the last call sent.
Statuses == [k \in 1..Len(aout.sent) |-> aout.sent[k].status]

\* The last call was for a scope that is not a lifespan scope.
Requested == areq.type \in ScopeTypes

\* C19: the endpoint gates in a fixed order. A scope that is neither http nor
\* lifespan is answered 501; otherwise a path other than the configured one is
\* answered 404, whatever the method; otherwise a method other than POST is
\* answered 405; a POST to the configured path without both signature headers
\* is answered 401 and never 200. A request answered by a gate is neither
\* authenticated nor decoded nor dispatched.
C19_GateOrder ==
    Requested =>
        /\ areq.type # "http" => Statuses = <<501>>
        /\ areq.type = "http" /\ areq.path # asgiCfg.path => Statuses = <<404>>
        /\ areq.type = "http" /\ areq.path = asgiCfg.path /\ areq.method # "POST"
              => Statuses = <<405>>
        /\ areq.type = "http" /\ areq.path = asgiCfg.path /\ areq.method = "POST"
              /\ (~areq.sig \/ ~areq.ts)
              => Statuses = <<401>>
        /\ aout.gate # 0 =>
              /\ ~aout.authenticated
              /\ ~aout.verified
              /\ ~aout.decoded
              /\ ~aout.dispatched
              /\ aout.raised = "none"
        /\ aout.gate # 0 <=>
              \/ areq.type # "http"
              \/ areq.path # asgiCfg.path
              \/ areq.method # "POST"

\* A request to another path with another method was answered 404.
C19_Witness ==
    /\ areq.type = "http"
    /\ areq.path # asgiCfg.path
    /\ areq.method # "POST"
    /\ Statuses = <<404>>
    /\ ~aout.authenticated

\* C20: an endpoint built with method M and path P lets a request to P through
\* to authentication exactly when the request's method is M, and answers any
\* other method on P with 405.
C20_ConfiguredMethod ==
    Requested /\ areq.type = "http" /\ areq.path = asgiCfg.path =>
        /\ aout.gate = 0 <=> areq.method = asgiCfg.method
        /\ areq.method # asgiCfg.method => Statuses = <<405>>

\* The request passed _verify_request_target.
PassedGate == Requested /\ areq.type = "http" /\ aout.gate = 0

\* The whole body of the request: its chunks in arrival order.
WholeBody ==
    IF Len(areq.chunks) = 1 THEN areq.chunks[1]
    ELSE areq.chunks[1] \o areq.chunks[2]

\* The body went past authentication: decoding was attempted, the ping reply
\* was sent or the interaction was handed on.
Processed ==
    \/ aout.decoded
    \/ aout.raised = "JSONDecodeError"
    \/ aout.dispatched
    \/ 200 \in { aout.sent[k].status : k \in 1..Len(aout.sent) }

\* C21: a request that passed the gates and carries a content type other than
\* application/json, or no content-type header, is answered 401 and never
\* processed; for another content type the verifier is not called.
C21_ContentTypeRequired ==
    PassedGate /\ areq.ctype # "json" =>
        /\ Statuses = <<401>>
        /\ ~Processed
        /\ areq.ctype = "text" => ~aout.authenticated

\* C22: a request that passed the gates is processed only if both signature
\* headers are present and the verifier accepted the signature over the
\* timestamp and the whole body; with a header missing or a signature over
\* anything else the answer is 401 and nothing is processed.
C22_SignatureRequired ==
    PassedGate =>
        /\ Processed =>
              /\ areq.sig /\ areq.ts
              /\ areq.signed = Timestamp \o WholeBody
              /\ aout.message = Timestamp \o WholeBody
        /\ (~areq.sig \/ ~areq.ts \/ areq.signed # Timestamp \o WholeBody) =>
              /\ Statuses = <<401>>
              /\ ~Processed

\* A body of two chunks signed over its first chunk only was refused.
C22_Witness ==
    /\ PassedGate
    /\ areq.sig /\ areq.ts
    /\ Len(areq.chunks) = 2
    /\ areq.signed = Timestamp \o areq.chunks[1]
    /\ aout.authenticated
    /\ Statuses = <<401>>

\* C23: an authenticated request whose decoded body has type 1 is answered
\* once, with status 200 and the body {"type": 1}, and is not handed to the
\* application.
C23_PingAnswered ==
    PassedGate /\ aout.verified /\ WholeBody = "{\"type\": 1}" =>
        /\ aout.sent = <<[status |-> 200, ctype |-> "application/json",
                          body |-> "{\"type\": 1}"]>>
        /\ ~aout.dispatched
        /\ aout.raised = "none"

\* A ping that arrived in two chunks was answered.
C23_Witness ==
    /\ PassedGate
    /\ aout.verified
    /\ Len(areq.chunks) = 2
    /\ WholeBody = "{\"type\": 1}"
    /\ Statuses = <<200>>

\* C24: an authenticated request whose decoded type is not 1 is handed to the
\* application's handle_interaction.
C24_Dispatched ==
    PassedGate /\ aout.verified /\ WholeBody = "{\"type\": 2}" =>
        /\ aout.dispatched
        /\ aout.raised = "none"

\* C25: every call for an HTTP request ends with one of the statuses 200, 401,
\* 404, 405, 501 and no exception leaves the call.
C25_NoExceptionEscapes ==
    Requested /\ areq.type = "http" =>
        /\ aout.raised = "none"
        /\ Len(Statuses) = 1
        /\ Statuses[1] \in {200, 401, 404, 405, 501}

\* C26: every startup or shutdown event the host delivers on the lifespan
\* channel is eventually acknowledged, with complete when the application's
\* managed startup or shutdown returned and failed when it raised; so is a
\* shutdown event delivered after an acknowledged startup.
C26_EventsAcknowledged ==
    \A k \in 1..2 :
        (Len(life.delivered) >= k)
            ~> (/\ Len(life.acks) >= k
                /\ life.acks[k] = AckFor(life.delivered[k]))

-----------------------------------------------------------------------------
(* Properties of the response operations. *)

\* The messages the last response operation sent.
Emitted == SubSeq(isent, Len(isent) - 1, Len(isent))

\* The parameters of the last operation that were given.
GivenKeys ==
    { k \in {"content", "tts", "embeds", "allowed_mentions", "components"} :
        iret[k] # MISSING }

\* C27: the data object of respond and of update has exactly the keys of the
\* parameters that were given among content, tts, embeds, allowed_mentions
\* and components, and the key flags, with the value 64, exactly when
\* ephemeral is true.
C27_DataKeys ==
    iret.op \in {"respond", "update"} =>
        /\ DOMAIN Emitted[2].json.data =
              GivenKeys \cup (IF iret.ephemeral = "True" THEN {"flags"} ELSE {})
        /\ \A k \in DOMAIN Emitted[2].json.data :
              Emitted[2].json.data[k] # MISSING
        /\ iret.ephemeral = "True" => Emitted[2].json.data["flags"] = "64"

\* respond or update was called with tts=False and nothing else but a
\* content, and the data object has those two keys.
C27_Witness ==
    /\ iret.op \in {"respond", "update"}
    /\ iret.tts = "False"
    /\ GivenKeys = {"content", "tts"}
    /\ iret.ephemeral = MISSING
    /\ DOMAIN Emitted[2].json.data = {"content", "tts"}

\* C28: a response operation sends one http.response.start with status 200
\* and the JSON content type, then one http.response.body, and nothing else;
\* the type in the body is 4 for respond, 5 for defer, 6 for defer_update and
\* 7 for update, and the deferred bodies have no data.
C28_ResponseMessages ==
    [][isent' # isent =>
          /\ Len(isent') = Len(isent) + 2
          /\ SubSeq(isent', 1, Len(isent)) = isent
          /\ isent'[Len(isent) + 1] =
                [type |-> "http.response.start", status |-> 200,
                 ctype |-> "application/json"]
          /\ isent'[Len(isent) + 2].type = "http.response.body"
          /\ iret'.op = "respond" => isent'[Len(isent) + 2].json.type = 4
          /\ iret'.op = "defer" => isent'[Len(isent) + 2].json.type = 5
          /\ iret'.op = "defer_update" => isent'[Len(isent) + 2].json.type = 6
          /\ iret'.op = "update" => isent'[Len(isent) + 2].json.type = 7
          /\ iret'.op \in {"defer", "defer_update"} =>
                DOMAIN isent'[Len(isent) + 2].json = {"type"}
          /\ iret'.op \in {"respond", "update"} =>
                DOMAIN isent'[Len(isent) + 2].json = {"type", "data"}]_vars

\* update sent its two messages, with the type 7.
C28_Witness ==
    /\ iret.op = "update"
    /\ Len(Emitted) = 2
    /\ Emitted[1].type = "http.response.start"
    /\ Emitted[2].json.type = 7

-----------------------------------------------------------------------------
(* Properties of SubcommandGroup. *)

\* The top-level options of the last invocation that are of type subcommand
\* or subcommand_group.
SubOptions == SelectSeq(gret.options, IsSubcommandOption)

\* The names registered on the group invoked.
RootNames == DOMAIN CommandsOf("root")

\* The last invocation received one option of a subcommand type, which names
\* the Command "a".
NamesCommand ==
    /\ gret.op = "invoke"
    /\ Len(SubOptions) = 1
    /\ SubOptions[1].name = "a"

\* The last invocation received one option of a subcommand type, which names
\* the nested group "g", with one nested option of a subcommand type, which
\* names the Command "b".
NamesNestedCommand ==
    /\ gret.op = "invoke"
    /\ Len(SubOptions) = 1
    /\ SubOptions[1].name = "g"
    /\ Len(SubOptions[1].options) = 1
    /\ SubOptions[1].options[1].type \in SubcommandTypes
    /\ SubOptions[1].options[1].name = "b"

\* C29: the invocation looks the name of the received option of a subcommand
\* type up among the registered subcommands and invokes that Command, or that
\* nested group and so on down to a Command, with the option's nested options.
C29_RoutedByName ==
    /\ NamesCommand =>
          /\ gret.result = "ok"
          /\ gret.invoked =
                <<[command |-> "a", options |-> SubOptions[1].options]>>
    /\ NamesNestedCommand =>
          /\ gret.result = "ok"
          /\ gret.invoked =
                <<[command |-> "g.b",
                   options |-> SubOptions[1].options[1].options]>>

\* C30: an invocation invokes at most one subcommand; without an option of a
\* subcommand type it fails with ValueError (InvalidInput), with options of a
\* subcommand type that name nothing registered it fails with LookupError
\* (NotFound), and a failed invocation invoked no callback.
C30_AtMostOne ==
    gret.op = "invoke" =>
        /\ Len(gret.invoked) <= 1
        /\ SubOptions = << >> =>
              gret.result = "ValueError" /\ gret.invoked = << >>
        /\ (/\ SubOptions # << >>
            /\ \A k \in 1..Len(SubOptions) : SubOptions[k].name \notin RootNames)
              => gret.result = "LookupError" /\ gret.invoked = << >>
        /\ gret.result # "ok" => gret.invoked = << >>

-----------------------------------------------------------------------------
(* Properties of SubcommandGroup.add_command and remove_command. *)

\* The error kinds, as the exceptions the code raises for them.
AlreadyRegistered(r) == r.result = "ValueError" /\ r.why = "already registered"
NotFound(r) == r.result = "ValueError" /\ r.why = "cannot find"
Conflict(r) == r.result = "RuntimeError"

-----------------------------------------------------------------------------
(* Properties of Command. *)

\* The value the callback is to receive for an option: the payload's value
\* for the option's name, or the option's default.
Expected(option, payload) ==
    IF \E k \in 1..Len(payload) : payload[k].name = option.name
    THEN (CHOOSE d \in {payload[k] : k \in 1..Len(payload)} : d.name = option.name).value
    ELSE option.default

C37_FirstParameterReserved ==
    pret.op = "construct" =>
        /\ \A k \in 1..Len(pret.options) : pret.options[k].param # pret.params[1].name
        /\ pret.params[1].ann = "int" => pret.result = "TypeError"
        /\ pret.result = "ok" =>
              \A j \in 2..Len(pret.params) :
                  Cardinality({k \in 1..Len(pret.options) :
                                  pret.options[k].param = pret.params[j].name}) = 1

-----------------------------------------------------------------------------
(* Properties of the context-menu commands. *)

C34_UserResolved ==
    (/\ xret.op = "handle"
     /\ xret.cmd.cls = "UserCommand"
     /\ ~xret.cmd.callback.isNone
     /\ xret.cmd.callback.params[2] = "InteractionUser"
     /\ xret.interaction.target_id # "None")
        => /\ xret.raised = "none"
           /\ xret.value = IF xret.interaction.user THEN "user:7" ELSE "None"

-----------------------------------------------------------------------------
(* Properties of ComponentEmoji.from_string. *)

\* The custom-emoji tokens: "<", an optional "a", ":", a name of word
\* characters, ":", an id of 13 to 20 digits, ">"; given by the length of
\* the flag and of the name.
TokenShapes(s) ==
    {t \in [a : {0, 1}, name : 1..Len(s)] :
        /\ At(s, 1) = "<"
        /\ t.a = 1 => At(s, 2) = "a"
        /\ At(s, t.a + 2) = ":"
        /\ \A i \in 1..t.name : IsNameChar(At(s, t.a + 2 + i))
        /\ At(s, t.a + t.name + 3) = ":"
        /\ Len(s) - (t.a + t.name + 4) \in MinIdDigits..MaxIdDigits
        /\ \A i \in (t.a + t.name + 4)..(Len(s) - 1) : IsDigit(At(s, i))
        /\ At(s, Len(s)) = ">"}

\* C35: from_string of a token gives the emoji with the token's name, its id
\* and animated exactly when the token has the "a" flag; from_string of any
\* other string gives the emoji whose name is the whole string and whose id
\* is the default id.
C35_FromString ==
    eret.op = "from_string" =>
        IF TokenShapes(eret.value) # {}
        THEN \A t \in TokenShapes(eret.value) :
                /\ eret.emoji.name = SubSeq(eret.value, t.a + 3, t.a + t.name + 2)
                /\ eret.emoji.id = DecimalOf(SubSeq(eret.value, t.a + t.name + 4,
                                                Len(eret.value) - 1))
                /\ eret.emoji.animated = (t.a = 1)
        ELSE /\ eret.emoji.name = eret.value
             /\ eret.emoji.id = DefaultId

====
